---------------------------- MODULE Spec2Model ----------------------------
(***************************************************************************)
(* Model of the trucking-partner backend: the trip endpoints (trips/),     *)
(* the HOS-aware route planner, the day projector and the duty-timeline    *)
(* builder (routes/services.py), and the rows they persist.                *)
(*                                                                         *)
(* Units.  The program computes with floats (hours, miles) and datetimes.  *)
(* The model keeps exact integers: time in units of 1/2200 hour, distance  *)
(* in units of 1/40 mile, so that one distance unit is driven in one time  *)
(* unit at AVERAGE_SPEED_MPH = 55.  One time unit is also the resolution   *)
(* of the model's clock: datetime.max.time(), the last representable       *)
(* instant of a day, is one unit before the next midnight.                 *)
(***************************************************************************)
EXTENDS Integers, Sequences, FiniteSets, TLC

(***************************************************************************)
(* HOSRules (routes/services.py)                                           *)
(***************************************************************************)
MAX_DRIVING_HOURS_PER_DAY == 11
MAX_ON_DUTY_HOURS_PER_DAY == 14
MAX_HOURS_PER_CYCLE == 70
REQUIRED_30MIN_BREAK_AFTER_HOURS == 8
AVERAGE_SPEED_MPH == 55
FUEL_STOP_INTERVAL_MILES == 1000
FUEL_STOP_DURATION_MINUTES == 30
BREAK_30MIN_DURATION == 30
BREAK_10HR_DURATION == 600
PICKUP_DURATION_MINUTES == 60
DROPOFF_DURATION_MINUTES == 60

(***************************************************************************)
(* Units                                                                   *)
(***************************************************************************)
UnitsPerHour == 22 * 100
UnitsPerMile == UnitsPerHour \div AVERAGE_SPEED_MPH
Hours(h) == h * UnitsPerHour
Minutes(m) == (m * UnitsPerHour) \div 60
Miles(m) == m * UnitsPerMile
DayLen == Hours(24)

Min2(a, b) == IF a <= b THEN a ELSE b
Max2(a, b) == IF a >= b THEN a ELSE b
Min3(a, b, c) == Min2(a, Min2(b, c))

(* hours * AVERAGE_SPEED_MPH, and miles / AVERAGE_SPEED_MPH *)
MilesAtSpeed(t) == (t * AVERAGE_SPEED_MPH * UnitsPerMile) \div UnitsPerHour
HoursAtSpeed(d) == (d * UnitsPerHour) \div (AVERAGE_SPEED_MPH * UnitsPerMile)

(***************************************************************************)
(* Bounds of the model: the requests and the map provider's answers.       *)
(***************************************************************************)
MaxLeg1Chunks == 9
MaxStartSlot == 3

(* coordinates <<lat, lng>> a request can carry; the first two share lat *)
Locations == { <<1, 1>>, <<1, 2>> }
BadLatitude == 90 + 1
(* current_cycle_hours_used of a request, in hours; 80 is out of range *)
CycleChoices == { 0, 45, 70, 80 }
(* planned_start_time: seconds past midnight would do; the model takes a   *)
(* few instants of day 0, one of them one clock unit before an hour mark   *)
StartTimes == { Hours(6) } \cup
              { Hours(7 * k) - (IF k = 3 THEN 1 ELSE 0) : k \in 0..MaxStartSlot }

(* leg 0 (current -> pickup) as the provider reports it: <<duration, distance>> *)
Leg0Choices == { <<Hours(2), Miles(130)>>, <<Hours(9), Miles(495)>>,
                 <<Hours(20), Miles(1100)>> }
(* leg 1 (pickup -> dropoff) distance as the provider reports it *)
Leg1Chunk == Miles(275)
Leg1Choices == { Miles(55) } \cup { k * Leg1Chunk : k \in 1..MaxLeg1Chunks }

(***************************************************************************)
(* State                                                                   *)
(***************************************************************************)
VARIABLES
    trip,       \* the Trip row, or NoTrip
    response,   \* status code of the last HTTP response
    pc,         \* position of the running RouteGenerationService call
    base,       \* the provider's route answer for this call
    svc,        \* fields and loop locals of RouteGenerationService
    routes,     \* persisted Route rows
    dbStops,    \* persisted Stop rows
    dailyLogs,  \* persisted DailyLog rows, each with its LogEntry rows
    call        \* a part driven on its own: a helper's arguments and outcome,
                \* the estimate planner's locals, or the activities table

vars == <<trip, response, pc, base, svc, routes, dbStops, dailyLogs, call>>

NoTrip == [exists |-> FALSE]
NoBase == [leg0_duration |-> 0, leg0_distance |-> 0, leg1_distance |-> 0,
           duration_hours |-> 0]

(* no route point has been looked up yet *)
NoPoint == -1

(* RouteGenerationService.__init__ *)
NewService(start) ==
    [ current_time |-> start,
      cumulative_miles |-> 0,
      daily_driving_hours |-> 0,
      daily_on_duty_hours |-> 0,
      hours_since_30min_break |-> 0,
      miles_since_fuel |-> 0,
      stops |-> << >>,
      distance_remaining |-> 0,
      distance_covered_in_leg |-> 0,
      last |-> "init",
      lookup_point |-> NoPoint,
      next_stop |-> 1,
      next_day |-> 1 ]

IdleService == NewService(0)

NoCall == [ op |-> "none" ]

Init ==
    /\ trip = NoTrip
    /\ response = 0
    /\ pc = "idle"
    /\ base = NoBase
    /\ svc = IdleService
    /\ routes = << >>
    /\ dbStops = << >>
    /\ dailyLogs = << >>
    /\ call = NoCall


(***************************************************************************)
(* Trip endpoints (trips/serializers.py, trips/views.py)                   *)
(***************************************************************************)
LatLngInRange(loc) ==
    /\ loc[1] >= -90 /\ loc[1] <= 90
    /\ loc[2] >= -180 /\ loc[2] <= 180

(* MinValueValidator / MaxValueValidator of the Trip model's fields *)
ModelFieldsValid(req) ==
    /\ LatLngInRange(req.current)
    /\ LatLngInRange(req.pickup)
    /\ LatLngInRange(req.dropoff)
    /\ req.cycle >= 0 /\ req.cycle <= MAX_HOURS_PER_CYCLE

(* TripCreateSerializer.validate: pickup and dropoff must differ *)
PickupDiffersFromDropoff(req) ==
    ~ (req.pickup[1] = req.dropoff[1] /\ req.pickup[2] = req.dropoff[2])

(* TripCreateSerializer: field validators, then validate() *)
TripCreateSerializerValid(req) ==
    /\ ModelFieldsValid(req)
    /\ req.cycle >= 0 /\ req.cycle <= 70
    /\ ~ req.start_in_past
    /\ PickupDiffersFromDropoff(req)

(* TripDetailSerializer, which get_serializer_class returns for update and *)
(* partial_update: a plain ModelSerializer with no validate methods        *)
TripDetailSerializerValid(req) == ModelFieldsValid(req)

RequestLocations == Locations \cup { <<BadLatitude, 1>> }

CreateRequests ==
    [ current : Locations, pickup : RequestLocations, dropoff : Locations,
      cycle : CycleChoices, start : StartTimes, start_in_past : BOOLEAN ]

UpdateRequests ==
    [ current : Locations, pickup : RequestLocations, dropoff : Locations,
      cycle : CycleChoices ]

(* POST /api/trips/ *)
CreateTrip ==
    /\ pc = "idle"
    /\ ~ trip.exists
    /\ \E req \in CreateRequests :
         IF TripCreateSerializerValid(req)
         THEN /\ trip' = [ exists |-> TRUE, current |-> req.current,
                           pickup |-> req.pickup, dropoff |-> req.dropoff,
                           cycle |-> req.cycle, start |-> req.start,
                           status |-> "planning", is_feasible |-> TRUE,
                           days_required |-> 0 ]
              /\ response' = 201
         ELSE /\ trip' = trip
              /\ response' = 400
    /\ UNCHANGED <<pc, base, svc, routes, dbStops, dailyLogs, call>>

(* PUT/PATCH /api/trips/{id}/ .  The model sends updates only while the   *)
(* trip has no Route row: once one exists, generate_route answers 400 and  *)
(* an update changes nothing but the Trip row.                             *)
UpdateTrip ==
    /\ pc = "idle"
    /\ trip.exists
    /\ Len(routes) = 0
    /\ \E req \in UpdateRequests :
         IF TripDetailSerializerValid(req)
         THEN /\ trip' = [ trip EXCEPT !.current = req.current,
                                       !.pickup = req.pickup,
                                       !.dropoff = req.dropoff,
                                       !.cycle = req.cycle ]
              /\ response' = 200
         ELSE /\ trip' = trip
              /\ response' = 400
    /\ UNCHANGED <<pc, base, svc, routes, dbStops, dailyLogs, call>>

(* DELETE /api/trips/{id}/ : the Route, Stop, DailyLog and LogEntry rows   *)
(* go with the trip (on_delete=CASCADE)                                    *)
DeleteTrip ==
    /\ pc = "idle"
    /\ trip.exists
    /\ trip' = NoTrip
    /\ response' = 204
    /\ routes' = << >>
    /\ dbStops' = << >>
    /\ dailyLogs' = << >>
    /\ UNCHANGED <<pc, base, svc, call>>

(* hasattr(trip, 'route') *)
HasRoute == Len(routes) > 0

(* POST /api/trips/{id}/generate_route/ : refuse when a route exists, else *)
(* run the route generation service on the trip.  The view names the call  *)
(* generate_and_save_route(trip); routes/services.py offers the service as *)
(* RouteGenerationService(trip).generate_route(), wrapped by               *)
(* generate_route_for_trip, and that is what runs here.                    *)
GenerateRouteRequest ==
    /\ pc = "idle"
    /\ trip.exists
    /\ IF HasRoute
       THEN /\ response' = 400
            /\ UNCHANGED <<pc, svc>>
       ELSE /\ response' = 0
            /\ pc' = "geocode"
            /\ svc' = NewService(trip.start)
    /\ UNCHANGED <<trip, base, routes, dbStops, dailyLogs, call>>

(* generate_route_for_trip's except clause, then the view's: the error is  *)
(* recorded on the trip and answered with 500; nothing is undone           *)
Raise ==
    /\ trip' = [ trip EXCEPT !.is_feasible = FALSE ]
    /\ response' = 500
    /\ pc' = "idle"
    /\ svc' = IdleService
    /\ base' = NoBase

(***************************************************************************)
(* RouteGenerationService.generate_route, steps 1 to 3                     *)
(***************************************************************************)
(* _geocode_locations: a provider or save error propagates *)
GeocodeLocations ==
    /\ pc = "geocode"
    /\ \/ /\ pc' = "feasibility"
          /\ UNCHANGED <<trip, response, base, svc>>
       \/ Raise
    /\ UNCHANGED <<routes, dbStops, dailyLogs, call>>

(* a long haul whose reported duration is not its distance at 55 mph:      *)
(* 2500 miles in 45 hours, all of it after the pickup                      *)
LongHaul ==
    [ leg0_duration |-> 0, leg0_distance |-> 0,
      leg1_distance |-> Miles(2500), duration_hours |-> Hours(45) ]

(* what MapBoxService.get_route answers for the trip's three waypoints *)
RouteAnswers ==
    { [ leg0_duration |-> l0[1], leg0_distance |-> l0[2],
        leg1_distance |-> d1,
        duration_hours |-> l0[1] + HoursAtSpeed(d1) ] :
        l0 \in (IF trip.current = trip.pickup THEN { <<0, 0>> } ELSE Leg0Choices),
        d1 \in (IF trip.pickup = trip.dropoff THEN { 0 } ELSE Leg1Choices) }
    \cup (IF trip.current = trip.pickup /\ trip.pickup # trip.dropoff
          THEN { LongHaul } ELSE {})

(* a gate that also turns away a route needing exactly the available hours *)
FeasibleStrictly(cycle, duration) ==
    Hours(MAX_HOURS_PER_CYCLE - cycle) > duration

(* a gate that compares the route with the hours used, not with the hours  *)
(* left                                                                    *)
FeasibleByHoursUsed(cycle, duration) ==
    ~ (Hours(cycle) < duration)

(* _check_feasibility's comparison *)
Feasible(cycle, duration) ==
    ~ (Hours(MAX_HOURS_PER_CYCLE - cycle) < duration)

(* _check_feasibility, first half: the get_route call, which may raise *)
FetchRouteForFeasibility ==
    /\ pc = "feasibility"
    /\ \/ \E r \in RouteAnswers :
            /\ base' = r
            /\ pc' = "gate"
            /\ UNCHANGED <<trip, response, svc>>
       \/ Raise
    /\ UNCHANGED <<routes, dbStops, dailyLogs, call>>

(* _check_feasibility, second half, and generate_route's raise when it     *)
(* answers False                                                           *)
CheckFeasibility ==
    /\ pc = "gate"
    /\ IF Feasible(trip.cycle, base.duration_hours)
       THEN /\ trip' = [ trip EXCEPT !.is_feasible = TRUE ]
            /\ pc' = "base_route"
            /\ UNCHANGED <<response, base, svc>>
       ELSE Raise
    /\ UNCHANGED <<routes, dbStops, dailyLogs, call>>

(* _get_base_route: the same request again *)
GetBaseRoute ==
    /\ pc = "base_route"
    /\ \/ /\ pc' = "emit_current"
          /\ UNCHANGED <<trip, response, base, svc>>
       \/ Raise
    /\ UNCHANGED <<routes, dbStops, dailyLogs, call>>

(***************************************************************************)
(* Planner: _generate_stops and _traverse_route_with_stops                 *)
(***************************************************************************)
OnDutyStopTypes == { "pickup", "dropoff", "fuel" }

(* an _add_stop that leaves the clock at the arrival time *)
add_stop_clock_kept(s, type, duration_minutes) ==
    [ s EXCEPT
        !.stops = Append(@, [ sequence |-> Len(s.stops),
                              stop_type |-> type,
                              arrival_time |-> s.current_time,
                              departure_time |-> s.current_time + Minutes(duration_minutes),
                              duration_minutes |-> duration_minutes,
                              cumulative_miles |-> s.cumulative_miles ]),
        !.daily_on_duty_hours =
            IF type \in OnDutyStopTypes THEN @ + Minutes(duration_minutes) ELSE @,
        !.last = type ]

(* an _add_stop that adds no stop time to the day's on-duty hours *)
add_stop_on_duty_kept(s, type, duration_minutes) ==
    [ s EXCEPT
        !.stops = Append(@, [ sequence |-> Len(s.stops),
                              stop_type |-> type,
                              arrival_time |-> s.current_time,
                              departure_time |-> s.current_time + Minutes(duration_minutes),
                              duration_minutes |-> duration_minutes,
                              cumulative_miles |-> s.cumulative_miles ]),
        !.current_time = s.current_time + Minutes(duration_minutes),
        !.last = type ]

(* _add_stop *)
add_stop(s, type, duration_minutes) ==
    [ s EXCEPT
        !.stops = Append(@, [ sequence |-> Len(s.stops),
                              stop_type |-> type,
                              arrival_time |-> s.current_time,
                              departure_time |-> s.current_time + Minutes(duration_minutes),
                              duration_minutes |-> duration_minutes,
                              cumulative_miles |-> s.cumulative_miles ]),
        !.current_time = s.current_time + Minutes(duration_minutes),
        !.daily_on_duty_hours =
            IF type \in OnDutyStopTypes THEN @ + Minutes(duration_minutes) ELSE @,
        !.last = type ]

(* the six counter updates of a drive of `hours` over `miles` *)
drive(s, hours, miles) ==
    [ s EXCEPT
        !.current_time = @ + hours,
        !.cumulative_miles = @ + miles,
        !.daily_driving_hours = @ + hours,
        !.daily_on_duty_hours = @ + hours,
        !.hours_since_30min_break = @ + hours,
        !.miles_since_fuel = @ + miles,
        !.last = "drive" ]

(* a break insertion whose 10-hour rest also zeroes the miles since fuel *)
insert_break_stop_fuel_reset(s, break_type) ==
    IF break_type = "30min"
    THEN [ add_stop(s, "30min_break", BREAK_30MIN_DURATION) EXCEPT
             !.daily_on_duty_hours = @ + Minutes(BREAK_30MIN_DURATION),
             !.hours_since_30min_break = 0 ]
    ELSE [ add_stop(s, "10hr_break", BREAK_10HR_DURATION) EXCEPT
             !.daily_driving_hours = 0,
             !.daily_on_duty_hours = 0,
             !.hours_since_30min_break = 0,
             !.miles_since_fuel = 0 ]

(* _insert_break_stop *)
insert_break_stop(s, break_type) ==
    IF break_type = "30min"
    THEN [ add_stop(s, "30min_break", BREAK_30MIN_DURATION) EXCEPT
             !.daily_on_duty_hours = @ + Minutes(BREAK_30MIN_DURATION),
             !.hours_since_30min_break = 0 ]
    ELSE [ add_stop(s, "10hr_break", BREAK_10HR_DURATION) EXCEPT
             !.daily_driving_hours = 0,
             !.daily_on_duty_hours = 0,
             !.hours_since_30min_break = 0 ]

(* a fuel stop that leaves the miles-since-fuel counter as it was *)
insert_fuel_stop_counter_kept(s) ==
    add_stop(s, "fuel", FUEL_STOP_DURATION_MINUTES)

(* _insert_fuel_stop *)
insert_fuel_stop(s) ==
    [ add_stop(s, "fuel", FUEL_STOP_DURATION_MINUTES) EXCEPT
        !.miles_since_fuel = 0 ]

NeedsBreak30(s) ==
    s.hours_since_30min_break >= Hours(REQUIRED_30MIN_BREAK_AFTER_HOURS)
NeedsBreak10(s) ==
    \/ s.daily_driving_hours >= Hours(MAX_DRIVING_HOURS_PER_DAY)
    \/ s.daily_on_duty_hours >= Hours(MAX_ON_DUTY_HOURS_PER_DAY)
NeedsFuel(s) ==
    s.miles_since_fuel >= Miles(FUEL_STOP_INTERVAL_MILES)

(* hours to drive that take no account of the 11-hour driving limit *)
hours_can_drive_ignoring_driving_limit(s) ==
    Min2(Hours(REQUIRED_30MIN_BREAK_AFTER_HOURS) - s.hours_since_30min_break,
         Hours(MAX_ON_DUTY_HOURS_PER_DAY) - s.daily_on_duty_hours)

hours_can_drive(s) ==
    Min2(Hours(REQUIRED_30MIN_BREAK_AFTER_HOURS) - s.hours_since_30min_break,
         Min2(Hours(MAX_DRIVING_HOURS_PER_DAY) - s.daily_driving_hours,
              Hours(MAX_ON_DUTY_HOURS_PER_DAY) - s.daily_on_duty_hours))
(* a drive length that takes no account of the miles since fuel *)
miles_can_drive_ignoring_fuel(s) ==
    Min2(MilesAtSpeed(hours_can_drive(s)), s.distance_remaining)

miles_can_drive(s) ==
    Min3(MilesAtSpeed(hours_can_drive(s)),
         Miles(FUEL_STOP_INTERVAL_MILES) - s.miles_since_fuel,
         s.distance_remaining)

(* the driving branch of the loop body *)
drive_step(s) ==
    LET miles == miles_can_drive(s)
        d == drive(s, HoursAtSpeed(miles), miles)
    IN [ d EXCEPT !.distance_covered_in_leg = @ + miles,
                  !.distance_remaining = @ - miles ]

(* a loop body that looks at the fuel counter before the break counters *)
traverse_iteration_fuel_first(s) ==
    IF NeedsFuel(s) THEN insert_fuel_stop(s)
    ELSE IF NeedsBreak30(s) THEN insert_break_stop(s, "30min")
    ELSE IF NeedsBreak10(s) THEN insert_break_stop(s, "10hr")
    ELSE drive_step(s)

(* one iteration of the while loop of _traverse_route_with_stops *)
traverse_iteration(s) ==
    IF NeedsBreak30(s) THEN insert_break_stop(s, "30min")
    ELSE IF NeedsBreak10(s) THEN insert_break_stop(s, "10hr")
    ELSE IF NeedsFuel(s) THEN insert_fuel_stop(s)
    ELSE drive_step(s)

(***************************************************************************)
(* The route geometry and MapBoxService.get_point_along_route.  The        *)
(* provider answers one polyline for the whole route, current -> pickup -> *)
(* dropoff; the model gives it a vertex every VertexSpacing of distance    *)
(* and names a vertex by its index, from 0.                                *)
(***************************************************************************)
VertexSpacing == Miles(AVERAGE_SPEED_MPH)

(* route['geometry'] of a route answer: the number of coordinates, and the *)
(* index of the vertex at the pickup waypoint                              *)
geometry_of(base_route) ==
    [ total_points |->
          (base_route.leg0_distance + base_route.leg1_distance) \div VertexSpacing + 1,
      pickup_index |-> base_route.leg0_distance \div VertexSpacing ]

(* get_point_along_route: the index of the vertex it returns *)
get_point_along_route(total_points, distance_miles, total_distance_miles) ==
    LET target_index == (distance_miles * (total_points - 1)) \div total_distance_miles
    IN IF target_index >= total_points THEN total_points - 1 ELSE target_index

(* the point _insert_break_stop and _insert_fuel_stop look up: the         *)
(* geometry handed to the traversal is base_route['geometry']              *)
stop_lookup_point(s, base_route) ==
    get_point_along_route(geometry_of(base_route).total_points,
                          s.distance_covered_in_leg, base_route.leg1_distance)

PlannerFrame == UNCHANGED <<trip, response, base, routes, dbStops, dailyLogs, call>>

(* the while loop of _traverse_route_with_stops, run to its end *)
RECURSIVE traverse_route_with_stops(_)
traverse_route_with_stops(s) ==
    IF s.distance_remaining > 0
    THEN traverse_route_with_stops(traverse_iteration(s))
    ELSE s

(* _generate_stops as one function of the start time and the base route *)
generate_stops(start, base_route) ==
    LET at_current == add_stop(NewService(start), "current", 0)
        at_pickup == drive(at_current, base_route.leg0_duration, base_route.leg0_distance)
        loaded == [ add_stop(at_pickup, "pickup", PICKUP_DURATION_MINUTES) EXCEPT
                      !.distance_remaining = base_route.leg1_distance,
                      !.distance_covered_in_leg = 0 ]
    IN add_stop(traverse_route_with_stops(loaded), "dropoff", DROPOFF_DURATION_MINUTES)

(* a planner that starts its clock at some time of day, not at the trip's  *)
(* planned start                                                           *)
EmitCurrentAtWallClock ==
    /\ pc = "emit_current"
    /\ \E now \in StartTimes :
         svc' = add_stop([ svc EXCEPT !.current_time = now ], "current", 0)
    /\ pc' = "leg0"
    /\ PlannerFrame

(* _generate_stops: the 'current' stop *)
EmitCurrent ==
    /\ pc = "emit_current"
    /\ svc' = add_stop(svc, "current", 0)
    /\ pc' = "leg0"
    /\ PlannerFrame

(* _generate_stops: leg 0 is driven as one interval with its own duration *)
DriveLeg0 ==
    /\ pc = "leg0"
    /\ svc' = drive(svc, base.leg0_duration, base.leg0_distance)
    /\ pc' = "pickup"
    /\ PlannerFrame

(* _generate_stops: the pickup stop, then the traversal's locals *)
EmitPickup ==
    /\ pc = "pickup"
    /\ svc' = [ add_stop(svc, "pickup", PICKUP_DURATION_MINUTES) EXCEPT
                  !.distance_remaining = base.leg1_distance,
                  !.distance_covered_in_leg = 0 ]
    /\ pc' = "traverse"
    /\ PlannerFrame

TraverseStep ==
    /\ pc = "traverse"
    /\ svc.distance_remaining > 0
    /\ svc' = [ traverse_iteration(svc) EXCEPT
                  !.lookup_point =
                      IF NeedsBreak30(svc) \/ NeedsBreak10(svc) \/ NeedsFuel(svc)
                      THEN stop_lookup_point(svc, base)
                      ELSE @ ]
    /\ UNCHANGED pc
    /\ PlannerFrame

(* a loop exit that still takes a 30-minute break that is due on arrival *)
EmitDropoffAfterDueBreak ==
    /\ pc = "traverse"
    /\ ~ (svc.distance_remaining > 0)
    /\ IF NeedsBreak30(svc)
       THEN /\ svc' = insert_break_stop(svc, "30min")
            /\ UNCHANGED pc
       ELSE /\ svc' = add_stop(svc, "dropoff", DROPOFF_DURATION_MINUTES)
            /\ pc' = "create_route"
    /\ PlannerFrame

(* the loop exits; _generate_stops appends the dropoff stop *)
EmitDropoff ==
    /\ pc = "traverse"
    /\ ~ (svc.distance_remaining > 0)
    /\ svc' = add_stop(svc, "dropoff", DROPOFF_DURATION_MINUTES)
    /\ pc' = "create_route"
    /\ PlannerFrame


(***************************************************************************)
(* Day projector: _generate_daily_logs                                     *)
(***************************************************************************)
(* datetime.date(), and datetime.combine(date, min.time() / max.time()) *)
DateOf(t) == t \div DayLen
DayStart(d) == d * DayLen
DayEnd(d) == d * DayLen + (DayLen - 1)

(* the slices of the stops on date d, in stop order *)
RECURSIVE stop_slices(_, _, _)
stop_slices(stops, d, n) ==
    IF n = 0 THEN << >>
    ELSE LET stop == stops[n]
             rest == stop_slices(stops, d, n - 1)
             day_arrival == Max2(stop.arrival_time, DayStart(d))
             day_departure == Min2(stop.departure_time, DayEnd(d))
         IN IF DateOf(stop.arrival_time) <= d /\ d <= DateOf(stop.departure_time)
            THEN Append(rest, [ original_stop |-> stop,
                                stop_index |-> n - 1,
                                day_arrival |-> day_arrival,
                                day_departure |-> day_departure,
                                day_duration_hours |-> day_departure - day_arrival ])
            ELSE rest

stops_by_date(stops, d) == stop_slices(stops, d, Len(stops))

(* the slices on date d of the drives between consecutive stops *)
RECURSIVE drive_slices(_, _, _)
drive_slices(stops, d, n) ==
    IF n <= 1 THEN << >>
    ELSE LET prev_stop == stops[n - 1]
             stop == stops[n]
             rest == drive_slices(stops, d, n - 1)
             drive_start == prev_stop.departure_time
             drive_end == stop.arrival_time
             day_drive_start == Max2(drive_start, DayStart(d))
             day_drive_end == Min2(drive_end, DayEnd(d))
         IN IF /\ drive_end > drive_start
               /\ DateOf(drive_start) <= d /\ d <= DateOf(drive_end)
               /\ day_drive_end > day_drive_start
            THEN Append(rest, [ from_stop |-> prev_stop,
                                to_stop |-> stop,
                                day_start |-> day_drive_start,
                                day_end |-> day_drive_end ])
            ELSE rest

drives_by_date(stops, d) == drive_slices(stops, d, Len(stops))

(* the keys of stops_by_date and drives_by_date *)
plan_dates(stops) ==
    IF stops = << >> THEN {}
    ELSE { d \in DateOf(stops[1].arrival_time) .. DateOf(stops[Len(stops)].departure_time) :
             stops_by_date(stops, d) # << >> \/ drives_by_date(stops, d) # << >> }

(* an ordering of the dates that puts the latest first *)
dates_descending(dates) ==
    [ r \in 1..Cardinality(dates) |->
        CHOOSE d \in dates : Cardinality({ e \in dates : e > d }) = r - 1 ]

(* sorted(...) of a set of dates *)
sorted_dates(dates) ==
    [ r \in 1..Cardinality(dates) |->
        CHOOSE d \in dates : Cardinality({ e \in dates : e < d }) = r - 1 ]

(* list.sort / sorted with a key: stable *)
StableSort(seq, key) ==
    LET rank(i) == Cardinality({ j \in 1..Len(seq) :
                        key[j] < key[i] \/ (key[j] = key[i] /\ j < i) }) + 1
    IN [ r \in 1..Len(seq) |-> seq[CHOOSE i \in 1..Len(seq) : rank(i) = r] ]

(***************************************************************************)
(* Duty-timeline builder: _create_log_entries_for_day                      *)
(***************************************************************************)
duty_status_map(stop_type) ==
    CASE stop_type \in { "pickup", "dropoff", "fuel" } -> "on_duty"
      [] stop_type = "30min_break" -> "off_duty"
      [] stop_type = "10hr_break" -> "sleeper"
      [] stop_type = "current" -> "off_duty"
      [] OTHER -> "off_duty"

(* all_events: the drives, then the stops, sorted by time *)
all_events(day_entries, day_drives) ==
    LET unsorted ==
            [ i \in 1..Len(day_drives) |->
                [ type |-> "drive", time |-> day_drives[i].day_start,
                  end |-> day_drives[i].day_end, stop_type |-> "" ] ]
            \o
            [ i \in 1..Len(day_entries) |->
                [ type |-> "stop", time |-> day_entries[i].day_arrival,
                  end |-> day_entries[i].day_departure,
                  stop_type |-> day_entries[i].original_stop.stop_type ] ]
    IN StableSort(unsorted, [ i \in 1..Len(unsorted) |-> unsorted[i].time ])

Entry(status, start, end) ==
    [ duty_status |-> status, start_time |-> start, end_time |-> end ]

(* the body of `for event in all_events`: acc is <<entries, current_time>> *)
event_entries(acc, event) ==
    LET entries == acc[1]
        current_time == acc[2]
        gap == IF event.time > current_time
               THEN Append(entries, Entry("off_duty", current_time, event.time))
               ELSE entries
        at == IF event.time > current_time THEN event.time ELSE current_time
    IN IF event.type = "drive"
       THEN << Append(gap, Entry("driving", at, event.end)), event.end >>
       ELSE IF event.end > at
            THEN << Append(gap, Entry(duty_status_map(event.stop_type), at, event.end)),
                    event.end >>
            ELSE << gap, at >>

RECURSIVE fold_events(_, _, _)
fold_events(acc, events, k) ==
    IF k > Len(events) THEN acc
    ELSE fold_events(event_entries(acc, events[k]), events, k + 1)

(* the entries list before validation, closing off-duty entry included *)
built_entries(day_start, day_end, day_entries, day_drives) ==
    LET acc == fold_events(<< << >>, day_start >>, all_events(day_entries, day_drives), 1)
    IN IF acc[2] < day_end
       THEN Append(acc[1], Entry("off_duty", acc[2], day_end))
       ELSE acc[1]

(* int((end - start).total_seconds() / 60) *)
duration_min(start, end) == ((end - start) * 60) \div UnitsPerHour

(* the final loop: invalid and overlapping entries are logged and skipped, *)
(* a gap is logged and the entry kept; the rest become LogEntry rows       *)
entry_kept(entries, i) ==
    /\ ~ (entries[i].end_time <= entries[i].start_time)
    /\ (i > 1 => ~ (entries[i].start_time < entries[i - 1].end_time))

RECURSIVE persisted_entries(_, _)
persisted_entries(entries, n) ==
    IF n = 0 THEN << >>
    ELSE LET rest == persisted_entries(entries, n - 1)
         IN IF entry_kept(entries, n)
            THEN Append(rest, [ duty_status |-> entries[n].duty_status,
                                start_time |-> entries[n].start_time,
                                end_time |-> entries[n].end_time,
                                duration_minutes |->
                                    duration_min(entries[n].start_time, entries[n].end_time) ])
            ELSE rest

create_log_entries_for_day(day_start, day_end, day_entries, day_drives) ==
    LET entries == built_entries(day_start, day_end, day_entries, day_drives)
    IN persisted_entries(entries, Len(entries))

(***************************************************************************)
(* _create_daily_log_for_date                                              *)
(***************************************************************************)
RECURSIVE SumOver(_, _)
SumOver(val, n) ==
    IF n = 0 THEN 0 ELSE SumOver(val, n - 1) + val[n]

(* round(x, 2) of a duration: hundredths of an hour, ties to even *)
Round2(u) ==
    LET n == u * 100
        q == n \div UnitsPerHour
        r == n % UnitsPerHour
    IN IF 2 * r < UnitsPerHour THEN q
       ELSE IF 2 * r > UnitsPerHour THEN q + 1
       ELSE IF q % 2 = 0 THEN q ELSE q + 1

driving_hours_of(day_drive_info) ==
    SumOver([ i \in 1..Len(day_drive_info) |->
                day_drive_info[i].day_end - day_drive_info[i].day_start ],
            Len(day_drive_info))

on_duty_not_driving_hours_of(day_entries) ==
    SumOver([ i \in 1..Len(day_entries) |->
                IF day_entries[i].original_stop.stop_type \in { "pickup", "dropoff", "fuel" }
                THEN day_entries[i].day_duration_hours ELSE 0 ],
            Len(day_entries))

(* a * b / c in hundredths of a unit, for 0 <= a, b and 0 < c *)
MulDiv100(a, b, c) ==
    ((a * b) \div c) * 100 + (((a * b) % c) * 100) \div c

(* an attribution that gives every slice of a drive the drive's whole      *)
(* distance                                                                *)
slice_miles_whole_drive(drive_info) ==
    (drive_info.to_stop.cumulative_miles - drive_info.from_stop.cumulative_miles) * 100

(* drive_distance * (drive_duration / global_drive_duration) of one drive  *)
(* slice, in hundredths of a distance unit; 0 when the whole drive has no  *)
(* duration                                                                *)
slice_miles(drive_info) ==
    LET drive_duration == drive_info.day_end - drive_info.day_start
        global_drive_duration ==
            drive_info.to_stop.arrival_time - drive_info.from_stop.departure_time
        drive_distance ==
            drive_info.to_stop.cumulative_miles - drive_info.from_stop.cumulative_miles
    IN IF global_drive_duration > 0
       THEN MulDiv100(drive_distance, drive_duration, global_drive_duration)
       ELSE 0

(* round(x, 1) of a distance given in hundredths of a distance unit:       *)
(* tenths of a mile, ties to even                                          *)
Round1(x) ==
    LET per_tenth == (UnitsPerMile * 100) \div 10
        q == x \div per_tenth
        r == x % per_tenth
    IN IF 2 * r < per_tenth THEN q
       ELSE IF 2 * r > per_tenth THEN q + 1
       ELSE IF q % 2 = 0 THEN q ELSE q + 1

(* total_miles of a date: the sum over its drive slices, rounded *)
total_miles_of(day_drive_info) ==
    Round1(SumOver([ i \in 1..Len(day_drive_info) |-> slice_miles(day_drive_info[i]) ],
                   Len(day_drive_info)))

(* the keyword arguments of DailyLog.objects.create *)
daily_log_totals(driving_hours, on_duty_not_driving_hours) ==
    LET total_on_duty_hours == driving_hours + on_duty_not_driving_hours
        total_off_duty_hours == Hours(24) - total_on_duty_hours
    IN [ total_driving_hours |-> Round2(driving_hours),
         total_on_duty_hours |-> Round2(total_on_duty_hours),
         total_off_duty_hours |-> Round2(total_off_duty_hours),
         total_sleeper_berth_hours |-> 0 ]

create_daily_log_for_date(day_number, log_date, day_stop_info, day_drive_info) ==
    LET day_entries ==
            StableSort(day_stop_info,
                       [ i \in 1..Len(day_stop_info) |-> day_stop_info[i].day_arrival ])
        totals == daily_log_totals(driving_hours_of(day_drive_info),
                                   on_duty_not_driving_hours_of(day_entries))
    IN [ day_number |-> day_number,
         log_date |-> log_date,
         totals |-> totals,
         total_miles |-> total_miles_of(day_drive_info),
         entries |-> create_log_entries_for_day(DayStart(log_date), DayEnd(log_date),
                                                day_entries, day_drive_info) ]


(***************************************************************************)
(* Persistence: _create_route, _create_stops, _generate_daily_logs         *)
(***************************************************************************)
(* the keyword arguments of Route.objects.create *)
create_route(s, base_route) ==
    LET n == Len(s.stops)
        total_driving_hours ==
            SumOver([ i \in 1..n |->
                        IF s.stops[i].stop_type \in { "current", "pickup", "dropoff" }
                        THEN s.stops[i].departure_time - s.stops[i].arrival_time
                        ELSE 0 ], n)
            + base_route.duration_hours
        total_on_duty_hours ==
            total_driving_hours
            + SumOver([ i \in 1..n |->
                          IF s.stops[i].stop_type \in { "pickup", "dropoff", "fuel" }
                          THEN Minutes(s.stops[i].duration_minutes)
                          ELSE 0 ], n)
        total_duration == s.stops[n].departure_time - s.stops[1].arrival_time
    IN [ total_distance_miles |-> s.cumulative_miles,
         total_duration_hours |-> total_duration,
         total_driving_hours |-> total_driving_hours,
         total_on_duty_hours |-> total_on_duty_hours,
         total_off_duty_hours |-> total_duration - total_on_duty_hours,
         compliance_status |-> "compliant" ]

(* a Stop row whose miles_from_previous is measured from the trip start *)
stop_row_miles_from_start(stops, i) ==
    [ sequence |-> stops[i].sequence,
      stop_type |-> stops[i].stop_type,
      arrival_time |-> stops[i].arrival_time,
      departure_time |-> stops[i].departure_time,
      duration_minutes |-> stops[i].duration_minutes,
      miles_from_previous |-> stops[i].cumulative_miles,
      cumulative_miles |-> stops[i].cumulative_miles ]

(* the keyword arguments of Stop.objects.create for self.stops[i] *)
stop_row(stops, i) ==
    [ sequence |-> stops[i].sequence,
      stop_type |-> stops[i].stop_type,
      arrival_time |-> stops[i].arrival_time,
      departure_time |-> stops[i].departure_time,
      duration_minutes |-> stops[i].duration_minutes,
      miles_from_previous |->
          IF i > 1 THEN stops[i].cumulative_miles - stops[i - 1].cumulative_miles ELSE 0,
      cumulative_miles |-> stops[i].cumulative_miles ]

CreateRoute ==
    /\ pc = "create_route"
    /\ \/ /\ routes' = Append(routes, create_route(svc, base))
          /\ pc' = "create_stops"
          /\ UNCHANGED <<trip, response, base, svc>>
       \/ /\ Raise
          /\ UNCHANGED routes
    /\ UNCHANGED <<dbStops, dailyLogs, call>>

(* one iteration of the loop of _create_stops *)
CreateStop ==
    /\ pc = "create_stops"
    /\ \/ /\ dbStops' = Append(dbStops, stop_row(svc.stops, svc.next_stop))
          /\ svc' = [ svc EXCEPT !.next_stop = @ + 1 ]
          /\ pc' = IF svc.next_stop = Len(svc.stops) THEN "daily_logs" ELSE pc
          /\ UNCHANGED <<trip, response, base>>
       \/ /\ Raise
          /\ UNCHANGED dbStops
    /\ UNCHANGED <<routes, dailyLogs, call>>

(* one iteration of `for day_number, log_date in enumerate(sorted_dates)`: *)
(* the DailyLog row and its LogEntry rows                                  *)
CreateDailyLog ==
    /\ pc = "daily_logs"
    /\ LET dates == sorted_dates(plan_dates(svc.stops))
           log_date == dates[svc.next_day]
       IN \/ /\ dailyLogs' =
                    Append(dailyLogs,
                           create_daily_log_for_date(svc.next_day, log_date,
                                                     stops_by_date(svc.stops, log_date),
                                                     drives_by_date(svc.stops, log_date)))
             /\ svc' = [ svc EXCEPT !.next_day = @ + 1 ]
             /\ pc' = IF svc.next_day = Len(dates) THEN "return" ELSE pc
             /\ UNCHANGED <<trip, response, base>>
          \/ /\ Raise
             /\ UNCHANGED dailyLogs
    /\ UNCHANGED <<routes, dbStops, call>>

(* _generate_daily_logs stores days_required; generate_route returns;      *)
(* generate_route_for_trip sets the status; the view answers               *)
ReturnRoute ==
    /\ pc = "return"
    /\ trip' = [ trip EXCEPT !.days_required = Len(dailyLogs),
                             !.status = "planning" ]
    /\ response' = 201
    /\ pc' = "idle"
    /\ svc' = IdleService
    /\ base' = NoBase
    /\ UNCHANGED <<routes, dbStops, dailyLogs, call>>

Next ==
    \/ CreateTrip
    \/ UpdateTrip
    \/ DeleteTrip
    \/ GenerateRouteRequest
    \/ GeocodeLocations
    \/ FetchRouteForFeasibility
    \/ CheckFeasibility
    \/ GetBaseRoute
    \/ EmitCurrent
    \/ DriveLeg0
    \/ EmitPickup
    \/ TraverseStep
    \/ EmitDropoff
    \/ CreateRoute
    \/ CreateStop
    \/ CreateDailyLog
    \/ ReturnRoute

Spec == Init /\ [][Next]_vars


(* _generate_daily_logs as one function of the stops: the rows it creates *)
generate_daily_logs(stops) ==
    LET dates == sorted_dates(plan_dates(stops))
    IN [ k \in 1..Len(dates) |->
           create_daily_log_for_date(k, dates[k], stops_by_date(stops, dates[k]),
                                     drives_by_date(stops, dates[k])) ]

(***************************************************************************)
(* MapBoxService.find_nearest_stop_location, called on its own             *)
(***************************************************************************)
(* the queries tried for a stop type, in order *)
search_strategies(stop_type) ==
    CASE stop_type = "rest" ->
           << "truck stop", "rest area", "travel center", "parking" >>
      [] stop_type = "fuel" ->
           << "gas station", "fuel", "truck stop", "service station" >>
      [] stop_type = "break" ->
           << "hotel", "motel", "truck stop", "rest area" >>
      [] OTHER -> << "truck stop" >>

stop_type_label(stop_type) ==
    CASE stop_type = "rest" -> "Rest Stop"
      [] stop_type = "fuel" -> "Fuel Stop"
      [] stop_type = "break" -> "Rest Area"
      [] OTHER -> "Stop"

(* what one upstream request can do: raise a RequestException, answer with *)
(* no features, or answer with a feature                                   *)
UpstreamOutcomes == { "error", "empty", "found" }
(* where the provider puts the POI it finds: not at the query coordinate *)
PoiOffset == 5

(* a lookup in which a failed POI search ends the lookup with its error *)
find_nearest_stop_location_search_errors_raised(lat, lng, stop_type, searches, reverse) ==
    LET queries == search_strategies(stop_type)
        tried == { k \in 1..Len(queries) : searches[k] # "empty" }
        first == CHOOSE k \in tried : \A j \in tried : k <= j
    IN IF tried # {} /\ searches[first] = "error"
       THEN [ raised |-> TRUE, address |-> << >>, latitude |-> lat, longitude |-> lng,
              place_id |-> "" ]
       ELSE IF tried # {}
       THEN [ raised |-> FALSE, address |-> << "place_name", queries[first] >>,
              latitude |-> lat + PoiOffset, longitude |-> lng + PoiOffset,
              place_id |-> "poi" ]
       ELSE [ raised |-> FALSE, address |-> << "Rest Stop (estimated near", lat, lng >>,
              latitude |-> lat, longitude |-> lng, place_id |-> "" ]

(* the lookup: the first query that finds a feature wins; a query that     *)
(* raises a RequestException or finds nothing is passed over; then reverse *)
(* geocoding, any exception of which is caught; then the coordinates       *)
find_nearest_stop_location(lat, lng, stop_type, searches, reverse) ==
    LET queries == search_strategies(stop_type)
        hits == { k \in 1..Len(queries) : searches[k] = "found" }
        first == CHOOSE k \in hits : \A j \in hits : k <= j
    IN IF hits # {}
       THEN [ raised |-> FALSE, address |-> << "place_name", queries[first] >>,
              latitude |-> lat + PoiOffset, longitude |-> lng + PoiOffset,
              place_id |-> "poi" ]
       ELSE IF reverse = "found"
       THEN [ raised |-> FALSE,
              address |-> << stop_type_label(stop_type), "near", "place_name" >>,
              latitude |-> lat, longitude |-> lng, place_id |-> "" ]
       ELSE [ raised |-> FALSE, address |-> << "Rest Stop (estimated near", lat, lng >>,
              latitude |-> lat, longitude |-> lng, place_id |-> "" ]

(* the lookups a caller can make and the ways the provider can answer *)
LookupCalls ==
    [ op : { "find_nearest_stop_location" },
      lat : { 1, 2 }, lng : { 1 },
      stop_type : { "rest", "fuel", "break", "other" },
      searches : [ 1..4 -> UpstreamOutcomes ],
      reverse : UpstreamOutcomes,
      done : { FALSE } ]

FindNearestStopLocation ==
    /\ call.op = "find_nearest_stop_location"
    /\ ~ call.done
    /\ call' = [ op |-> call.op, lat |-> call.lat, lng |-> call.lng,
                 stop_type |-> call.stop_type, searches |-> call.searches,
                 reverse |-> call.reverse, done |-> TRUE,
                 result |-> find_nearest_stop_location(call.lat, call.lng, call.stop_type,
                                                       call.searches, call.reverse) ]
    /\ UNCHANGED <<trip, response, pc, base, svc, routes, dbStops, dailyLogs>>

(***************************************************************************)
(* _create_log_entries_for_day, called on its own with slices that need    *)
(* not come from a plan: stops and drives of one small day, which may      *)
(* overlap one another                                                     *)
(***************************************************************************)
MaxSliceTime == 3

SliceTimes == 0..MaxSliceTime
StopSlices ==
    { s \in [ original_stop : [ stop_type : { "pickup", "10hr_break" } ],
              day_arrival : SliceTimes, day_departure : SliceTimes ] :
        s.day_departure >= s.day_arrival }
DriveSlices ==
    { s \in [ day_start : SliceTimes, day_end : SliceTimes ] : s.day_end > s.day_start }

TimelineCalls ==
    [ op : { "create_log_entries_for_day" },
      day_start : { 0 }, day_end : { MaxSliceTime + 1 },
      day_entries : { << >> } \cup { << a >> : a \in StopSlices }
                    \cup { << a, b >> : a \in StopSlices, b \in StopSlices },
      day_drives : { << >> } \cup { << a >> : a \in DriveSlices },
      done : { FALSE } ]

(* the method returns normally whatever it was given: its validation loop  *)
(* has no raise                                                            *)
CreateLogEntriesForDay ==
    /\ call.op = "create_log_entries_for_day"
    /\ ~ call.done
    /\ call' = [ op |-> call.op, day_start |-> call.day_start, day_end |-> call.day_end,
                 day_entries |-> call.day_entries, day_drives |-> call.day_drives,
                 done |-> TRUE,
                 result |-> [ raised |-> FALSE,
                              rows |-> create_log_entries_for_day(
                                           call.day_start, call.day_end,
                                           call.day_entries, call.day_drives) ] ]
    /\ UNCHANGED <<trip, response, pc, base, svc, routes, dbStops, dailyLogs>>

(* the helpers called directly, on every input of the bounded sets *)
CallInit ==
    /\ trip = NoTrip
    /\ response = 0
    /\ pc = "idle"
    /\ base = NoBase
    /\ svc = IdleService
    /\ routes = << >>
    /\ dbStops = << >>
    /\ dailyLogs = << >>
    /\ call \in LookupCalls \cup TimelineCalls

CallNext ==
    \/ FindNearestStopLocation
    \/ CreateLogEntriesForDay

CallSpec == CallInit /\ [][CallNext]_vars

(***************************************************************************)
(* RouteService._generate_stops (routes/route_service.py), the estimate    *)
(* planner: a pure function of the total distance and the start time.      *)
(* ELDRules (route_service.py 47-57) carries the same names and values as  *)
(* HOSRules above.  Arithmetic is exact where the code uses floats.        *)
(***************************************************************************)
MaxTotalChunks == 11

TotalChunk == Miles(500)
(* total_distance_miles of a call *)
TotalDistances == { k * TotalChunk : k \in 1..MaxTotalChunks }

EstimateStop(stop_type, arrival, duration) ==
    [ stop_type |-> stop_type, arrival_time |-> arrival,
      departure_time |-> arrival + duration, duration_minutes |-> duration ]

(* the locals of a call that has not yet run its first statement *)
EstimateCalls ==
    [ op : { "generate_stops" },
      total_distance_miles : TotalDistances,
      start_time : StartTimes,
      at : { "pickup" },
      stops : { << >> },
      current_time : { 0 },
      current_driving_hours : { 0 },
      current_on_duty_hours : { 0 },
      current_distance : { 0 },
      remaining_distance : { 0 },
      hours_to_drive : { 0 } ]

(* the pickup stop, its hour on duty, and the distance still to cover *)
EstimatePickup ==
    /\ call.op = "generate_stops"
    /\ call.at = "pickup"
    /\ LET stop == EstimateStop("pickup", call.start_time, Hours(1))
       IN  call' = [ call EXCEPT
                       !.stops = << stop >>,
                       !.current_time = stop.departure_time,
                       !.current_on_duty_hours = Hours(1),
                       !.remaining_distance = (call.total_distance_miles * 6) \div 10,
                       !.at = "loop" ]
    /\ UNCHANGED <<trip, response, pc, base, svc, routes, dbStops, dailyLogs>>

(* min(hours_until_30min_break if current_driving_hours > 0 else inf,      *)
(*     hours_until_daily_limit, hours_until_on_duty_limit)                 *)
estimate_hours_can_drive(c) ==
    LET hours_until_30min_break ==
            Hours(REQUIRED_30MIN_BREAK_AFTER_HOURS) - c.current_driving_hours
        hours_until_daily_limit ==
            Hours(MAX_DRIVING_HOURS_PER_DAY) - c.current_driving_hours
        hours_until_on_duty_limit ==
            Hours(MAX_ON_DUTY_HOURS_PER_DAY) - c.current_on_duty_hours
    IN  IF c.current_driving_hours > 0
        THEN Min3(hours_until_30min_break, hours_until_daily_limit,
                  hours_until_on_duty_limit)
        ELSE Min2(hours_until_daily_limit, hours_until_on_duty_limit)

estimate_hours_to_drive(c) ==
    LET miles_until_fuel ==
            Miles(FUEL_STOP_INTERVAL_MILES)
                - (c.current_distance % Miles(FUEL_STOP_INTERVAL_MILES))
        hours_until_fuel == HoursAtSpeed(miles_until_fuel)
    IN  Min3(estimate_hours_can_drive(c), hours_until_fuel,
             HoursAtSpeed(c.remaining_distance))

(* one pass of the while loop: drive, then at most one stop *)
estimate_iteration(c) ==
    LET hours_to_drive == estimate_hours_to_drive(c)
        miles_driven == MilesAtSpeed(hours_to_drive)
        d == [ c EXCEPT
                 !.hours_to_drive = hours_to_drive,
                 !.current_time = @ + hours_to_drive,
                 !.current_driving_hours = @ + hours_to_drive,
                 !.current_on_duty_hours = @ + hours_to_drive,
                 !.current_distance = @ + miles_driven,
                 !.remaining_distance = @ - miles_driven ]
    IN  IF d.remaining_distance <= 0
        THEN [ d EXCEPT !.at = "dropoff" ]
        ELSE IF d.current_distance % Miles(FUEL_STOP_INTERVAL_MILES) < miles_driven
        THEN [ d EXCEPT
                 !.stops = Append(@, EstimateStop("fuel", d.current_time,
                                                  Minutes(30))),
                 !.current_time = @ + Minutes(30),
                 !.current_on_duty_hours = @ + Minutes(30) ]
        ELSE IF d.current_driving_hours >= Hours(REQUIRED_30MIN_BREAK_AFTER_HOURS)
        THEN [ d EXCEPT
                 !.stops = Append(@, EstimateStop("30min_break", d.current_time,
                                                  Minutes(30))),
                 !.current_time = @ + Minutes(30),
                 !.current_driving_hours = 0 ]
        ELSE IF \/ d.current_driving_hours >= Hours(MAX_DRIVING_HOURS_PER_DAY)
                \/ d.current_on_duty_hours >= Hours(MAX_ON_DUTY_HOURS_PER_DAY)
        THEN [ d EXCEPT
                 !.stops = Append(@, EstimateStop("10hr_break", d.current_time,
                                                  Hours(10))),
                 !.current_time = @ + Hours(10),
                 !.current_driving_hours = 0,
                 !.current_on_duty_hours = 0 ]
        ELSE d

EstimateLoopStep ==
    /\ call.op = "generate_stops"
    /\ call.at = "loop"
    /\ call' = IF call.remaining_distance > 0
               THEN estimate_iteration(call)
               ELSE [ call EXCEPT !.at = "dropoff" ]
    /\ UNCHANGED <<trip, response, pc, base, svc, routes, dbStops, dailyLogs>>

(* the dropoff stop, and the return *)
EstimateDropoff ==
    /\ call.op = "generate_stops"
    /\ call.at = "dropoff"
    /\ call' = [ call EXCEPT
                   !.stops = Append(@, EstimateStop("dropoff", call.current_time,
                                                    Hours(1))),
                   !.at = "returned" ]
    /\ UNCHANGED <<trip, response, pc, base, svc, routes, dbStops, dailyLogs>>

EstimateInit ==
    /\ trip = NoTrip
    /\ response = 0
    /\ pc = "idle"
    /\ base = NoBase
    /\ svc = IdleService
    /\ routes = << >>
    /\ dbStops = << >>
    /\ dailyLogs = << >>
    /\ call \in EstimateCalls

EstimateNext ==
    \/ EstimatePickup
    \/ EstimateLoopStep
    \/ EstimateDropoff

EstimateSpec == EstimateInit /\ [][EstimateNext]_vars


(***************************************************************************)
(* The activities app (activities/activity_service.py, activities/views.py)*)
(* driven by concurrent requests.  A row carries what the service writes:  *)
(* Activity in activities/models.py declares no field 'active', and the    *)
(* model takes the keyword start_activity passes.  The 'date' column is    *)
(* left out.  The variable call holds the table, timezone.now() and the    *)
(* locals of the end_activity calls in flight.                             *)
(***************************************************************************)
MaxActivities == 2
MaxClock == 2

Drivers == { "d1", "d2" }
(* the type is stored in the row and never read *)
ActivityTypes == { "DRIVING" }
(* the requests that can be inside end_activity at the same time *)
EndCalls == { "e1", "e2" }
(* end_time of a row that end_activity has not written *)
NoTime == -1

IdleEndCall == [ at |-> "idle" ]

ActivitiesStart ==
    [ op |-> "activities", table |-> << >>, now |-> 0,
      ending |-> [ r \in EndCalls |-> IdleEndCall ] ]

IsActivities == call.op = "activities"

(* timezone.now() moves on between any two statements *)
ClockTick ==
    /\ IsActivities
    /\ call.now < MaxClock
    /\ call' = [ call EXCEPT !.now = @ + 1 ]
    /\ UNCHANGED <<trip, response, pc, base, svc, routes, dbStops, dailyLogs>>

(* Activity.objects.create(driver, type, start_time = now, active = True) *)
start_activity(table, driver, activity_type, now) ==
    Append(table, [ id |-> Len(table) + 1, driver |-> driver,
                    type |-> activity_type, start_time |-> now,
                    end_time |-> NoTime, active |-> TRUE ])

(* ActivityViewSet.start *)
StartActivity ==
    /\ IsActivities
    /\ Len(call.table) < MaxActivities
    /\ \E driver \in Drivers, activity_type \in ActivityTypes :
           call' = [ call EXCEPT
                       !.table = start_activity(@, driver, activity_type, call.now) ]
    /\ UNCHANGED <<trip, response, pc, base, svc, routes, dbStops, dailyLogs>>

(* ActivityViewSet.end, first statement of end_activity:                   *)
(* Activity.objects.get(id = activity_id); an id without a row raises      *)
EndActivityGet ==
    /\ IsActivities
    /\ \E r \in EndCalls, activity_id \in 1..MaxActivities :
           /\ call.ending[r].at = "idle"
           /\ activity_id <= Len(call.table)
           /\ call' = [ call EXCEPT
                          !.ending[r] = [ at |-> "got",
                                          activity |-> call.table[activity_id] ] ]
    /\ UNCHANGED <<trip, response, pc, base, svc, routes, dbStops, dailyLogs>>

(* activity.end_time = timezone.now(); activity.active = False *)
EndActivityAssign ==
    /\ IsActivities
    /\ \E r \in EndCalls :
           /\ call.ending[r].at = "got"
           /\ call' = [ call EXCEPT
                          !.ending[r] =
                              [ at |-> "assigned",
                                activity |-> [ @.activity EXCEPT
                                                 !.end_time = call.now,
                                                 !.active = FALSE ] ] ]
    /\ UNCHANGED <<trip, response, pc, base, svc, routes, dbStops, dailyLogs>>

(* activity.save() writes every column of the row; the call returns *)
EndActivitySave ==
    /\ IsActivities
    /\ \E r \in EndCalls :
           /\ call.ending[r].at = "assigned"
           /\ call' = [ call EXCEPT
                          !.table[call.ending[r].activity.id] = call.ending[r].activity,
                          !.ending[r] = IdleEndCall ]
    /\ UNCHANGED <<trip, response, pc, base, svc, routes, dbStops, dailyLogs>>

ActivitiesInit ==
    /\ trip = NoTrip
    /\ response = 0
    /\ pc = "idle"
    /\ base = NoBase
    /\ svc = IdleService
    /\ routes = << >>
    /\ dbStops = << >>
    /\ dailyLogs = << >>
    /\ call = ActivitiesStart

ActivitiesNext ==
    \/ ClockTick
    \/ StartActivity
    \/ EndActivityGet
    \/ EndActivityAssign
    \/ EndActivitySave

ActivitiesSpec == ActivitiesInit /\ [][ActivitiesNext]_vars


(* the sequential program runs on: a loop iteration that can run does run *)
FairSpec == Spec /\ WF_vars(TraverseStep) /\ WF_vars(EmitDropoff)


(***************************************************************************)
(* Claims                                                                  *)
(***************************************************************************)
PlanningPcs == { "emit_current", "leg0", "pickup", "traverse" }
PersistPcs == { "create_route", "create_stops", "daily_logs", "return" }

(* the plan claims are stated for trips that passed the create validation *)
ValidTrip == trip.exists /\ PickupDiffersFromDropoff(trip)

(* C1: whenever a drive has just completed (leg 0 included), the hours     *)
(* driven since the last 30-minute or 10-hour break are at most 8.         *)
C1_SinceBreakAtMost8 ==
    (ValidTrip /\ svc.last = "drive") =>
        svc.hours_since_30min_break <= Hours(REQUIRED_30MIN_BREAK_AFTER_HOURS)

(* index of the last fuel stop before stop i, 0 when there is none *)
PrevFuel(stops, i) ==
    LET S == { j \in 1..(i - 1) : stops[j].stop_type = "fuel" }
    IN IF S = {} THEN 0 ELSE CHOOSE j \in S : \A k \in S : k <= j

(* C2: cumulative miles grow by at most 1000 between consecutive fuel      *)
(* stops, and between the trip start and the first fuel stop.              *)
C2_FuelEvery1000Miles ==
    ValidTrip =>
    \A i \in 1..Len(svc.stops) :
        svc.stops[i].stop_type = "fuel" =>
            LET j == PrevFuel(svc.stops, i)
                from == IF j = 0 THEN 0 ELSE svc.stops[j].cumulative_miles
            IN svc.stops[i].cumulative_miles - from <= Miles(FUEL_STOP_INTERVAL_MILES)

PlanHasReset == \E i \in 1..Len(dbStops) : dbStops[i].stop_type = "10hr_break"

(* C3: every daily log has at most 11 driving hours, at most 14 driving    *)
(* plus on-duty-not-driving hours, and at least 10 off-duty plus sleeper   *)
(* hours when the plan has a 10-hour reset (totals in hundredths).         *)
C3_DailyLogWithinLimits ==
    ValidTrip =>
    \A k \in 1..Len(dailyLogs) :
        LET t == dailyLogs[k].totals
        IN /\ t.total_driving_hours <= 100 * MAX_DRIVING_HOURS_PER_DAY
           /\ t.total_on_duty_hours <= 100 * MAX_ON_DUTY_HOURS_PER_DAY
           /\ PlanHasReset =>
                t.total_off_duty_hours + t.total_sleeper_berth_hours >= 100 * 10

(* the segments of a log tile the window [from, to] *)
Tiles(entries, from, to) ==
    /\ Len(entries) > 0
    /\ entries[1].start_time = from
    /\ entries[Len(entries)].end_time = to
    /\ \A i \in 1..Len(entries) : entries[i].end_time > entries[i].start_time
    /\ \A i \in 2..Len(entries) : entries[i].start_time = entries[i - 1].end_time

(* C4: the duty segments persisted for a date are time-ordered, each with  *)
(* end > start, each starting where the previous ends, the first at local  *)
(* 00:00 and the last ending at local 24:00.                               *)
C4_SegmentsPartitionDay ==
    ValidTrip =>
    \A k \in 1..Len(dailyLogs) :
        Tiles(dailyLogs[k].entries,
              DayStart(dailyLogs[k].log_date),
              DayStart(dailyLogs[k].log_date) + DayLen)


Abs(x) == IF x < 0 THEN -x ELSE x

(* C5: the four stored totals of every daily log add up to 24.00 hours,    *)
(* within 0.02.                                                            *)
C5_TotalsSumTo24 ==
    ValidTrip =>
    \A k \in 1..Len(dailyLogs) :
        LET t == dailyLogs[k].totals
        IN Abs(t.total_driving_hours + t.total_on_duty_hours
               + t.total_off_duty_hours + t.total_sleeper_berth_hours - 2400) <= 2

(* hours of the segments of a log that carry one duty status *)
StatusHours(entries, status) ==
    SumOver([ i \in 1..Len(entries) |->
                IF entries[i].duty_status = status
                THEN entries[i].end_time - entries[i].start_time ELSE 0 ],
            Len(entries))

(* C6: each stored per-day total equals the summed durations of that day's *)
(* segments of that status (driving, on duty not driving, off duty,        *)
(* sleeper), to 0.02 hour.                                                 *)
C6_TotalsMatchSegments ==
    ValidTrip =>
    \A k \in 1..Len(dailyLogs) :
        LET t == dailyLogs[k].totals
            e == dailyLogs[k].entries
        IN /\ Abs(t.total_driving_hours - Round2(StatusHours(e, "driving"))) <= 2
           /\ Abs(t.total_on_duty_hours - Round2(StatusHours(e, "on_duty"))) <= 2
           /\ Abs(t.total_off_duty_hours - Round2(StatusHours(e, "off_duty"))) <= 2
           /\ Abs(t.total_sleeper_berth_hours - Round2(StatusHours(e, "sleeper"))) <= 2

(* C7 as claimed: stops are numbered 0, 1, 2, ... and every stop arrives   *)
(* strictly later than the stop before it.                                 *)
C7_StrictlyTimeOrdered ==
    ValidTrip =>
    \A i \in 1..Len(svc.stops) :
        /\ svc.stops[i].sequence = i - 1
        /\ i > 1 => svc.stops[i].arrival_time > svc.stops[i - 1].arrival_time

(* C7 as amended: stops are numbered 0, 1, 2, ... in emission order; no    *)
(* stop arrives before the previous stop departs; and a stop arrives       *)
(* strictly later than the stop before it, except the pickup stop when     *)
(* leg 0 has zero duration, which arrives with the 'current' stop.         *)
C7_TimeOrdered ==
    /\ \A i \in 1..Len(svc.stops) :
        /\ svc.stops[i].sequence = i - 1
        /\ i > 1 =>
            /\ svc.stops[i].arrival_time >= svc.stops[i - 1].departure_time
            /\ \/ svc.stops[i].arrival_time > svc.stops[i - 1].arrival_time
               \/ /\ svc.stops[i].stop_type = "pickup"
                  /\ base.leg0_duration = 0
    /\ \A i \in 1..Len(dbStops) :
        /\ dbStops[i].sequence = i - 1
        /\ i > 1 => dbStops[i].arrival_time >= dbStops[i - 1].departure_time

(* a valid trip's finished plan with a zero-length leg 0 and both kinds of *)
(* break in it                                                             *)
C7_Witness ==
    /\ ValidTrip
    /\ pc = "create_route"
    /\ base.leg0_duration = 0
    /\ svc.stops[2].arrival_time = svc.stops[1].arrival_time
    /\ \E i, j \in 1..Len(svc.stops) :
        /\ svc.stops[i].stop_type = "30min_break"
        /\ svc.stops[j].stop_type = "10hr_break"
        /\ j = i + 1

(* C8: at the feasibility gate, with available = 70 - cycle hours used:    *)
(* if available < base route duration the call fails there, before any     *)
(* stop is planned and with no Route, Stop or DailyLog row written;        *)
(* otherwise (equality included) the gate passes and planning proceeds.    *)
C8_FeasibilityGate ==
    [][ pc = "gate" =>
          IF Hours(MAX_HOURS_PER_CYCLE - trip.cycle) < base.duration_hours
          THEN /\ pc' = "idle"
               /\ response' = 500
               /\ svc.stops = << >> /\ svc'.stops = << >>
               /\ routes = << >> /\ dbStops = << >> /\ dailyLogs = << >>
               /\ UNCHANGED <<routes, dbStops, dailyLogs>>
          ELSE /\ pc' = "base_route"
               /\ response' = response ]_vars

(* the gate has passed with available hours equal to the route duration *)
C8_Witness ==
    /\ pc = "base_route"
    /\ trip.cycle > 0
    /\ Hours(MAX_HOURS_PER_CYCLE - trip.cycle) = base.duration_hours

(* C9: when route generation has failed, no Route, Stop, DailyLog or duty  *)
(* segment of the attempt is stored.                                       *)
C9_AllOrNothing ==
    response = 500 =>
        routes = << >> /\ dbStops = << >> /\ dailyLogs = << >>

(* C10: no plan is simulated and no route stored for a trip whose pickup   *)
(* and dropoff coordinates are equal.                                      *)
C10_EqualPickupDropoffRejected ==
    (pc \in PlanningPcs \cup PersistPcs \/ HasRoute) =>
        PickupDiffersFromDropoff(trip)

(* C11: a generate-route request on a trip that already has a plan is      *)
(* accepted and starts a planning run that replaces the stored plan.       *)
C11_ReplanAccepted ==
    [][ (HasRoute /\ GenerateRouteRequest) => pc' = "geocode" ]_vars

(* a measure of the work the traversal loop has left: the distance still   *)
(* to drive, then the stops that are due                                   *)
TraverseVariant(s) ==
    8 * s.distance_remaining
    + (IF NeedsBreak30(s) THEN 2 ELSE 0)
    + (IF NeedsFuel(s) THEN 2 ELSE 0)
    + (IF NeedsBreak10(s) THEN 1 ELSE 0)

(* one loop iteration either drove a positive distance in positive time   *)
(* or inserted one stop that cleared the trigger it was inserted for       *)
TraverseProgress ==
    LET before == svc
        after == svc'
    IN /\ TraverseVariant(after) < TraverseVariant(before)
       /\ TraverseVariant(after) >= 0
       /\ \/ /\ after.last = "drive"
             /\ after.distance_remaining < before.distance_remaining
             /\ after.distance_remaining >= 0
             /\ after.current_time > before.current_time
             /\ after.cumulative_miles > before.cumulative_miles
             /\ after.stops = before.stops
          \/ /\ after.last = "30min_break" /\ NeedsBreak30(before) /\ ~ NeedsBreak30(after)
             /\ Len(after.stops) = Len(before.stops) + 1
             /\ after.distance_remaining = before.distance_remaining
          \/ /\ after.last = "10hr_break" /\ NeedsBreak10(before) /\ ~ NeedsBreak10(after)
             /\ Len(after.stops) = Len(before.stops) + 1
             /\ after.distance_remaining = before.distance_remaining
          \/ /\ after.last = "fuel" /\ NeedsFuel(before) /\ ~ NeedsFuel(after)
             /\ Len(after.stops) = Len(before.stops) + 1
             /\ after.distance_remaining = before.distance_remaining

(* C12: every iteration of the pickup -> dropoff loop makes progress (a    *)
(* drive of positive length, never of 0 hours or 0 miles, or a stop that   *)
(* resets the counter that triggered it), and the loop, once entered,      *)
(* is left: the dropoff stop is reached.                                   *)
C12_TraversalTerminates ==
    /\ [][ (pc = "traverse" /\ svc.distance_remaining > 0) => TraverseProgress ]_vars
    /\ (pc = "traverse") ~> (pc = "create_route")

(* the loop has ended after a leg 0 that left every counter over its limit *)
(* (a 30-minute break, a 10-hour break and a fuel stop were due at once)   *)
C12_Witness ==
    /\ pc = "create_route"
    /\ base.leg0_distance > Miles(FUEL_STOP_INTERVAL_MILES)
    /\ Len(svc.stops) > 5
    /\ svc.stops[3].stop_type = "30min_break"
    /\ svc.stops[4].stop_type = "10hr_break"
    /\ svc.stops[5].stop_type = "fuel"
    /\ svc.stops[5].arrival_time = svc.stops[4].departure_time
    /\ svc.stops[Len(svc.stops)].cumulative_miles > svc.stops[5].cumulative_miles

(* plan-wide hours of the stops of the given types *)
PlanStopHours(stops, types) ==
    SumOver([ i \in 1..Len(stops) |->
                IF stops[i].stop_type \in types
                THEN stops[i].departure_time - stops[i].arrival_time ELSE 0 ],
            Len(stops))

(* plan-wide hours of the drive intervals between consecutive stops *)
PlanDriveHours(stops) ==
    SumOver([ i \in 1..Len(stops) |->
                IF i > 1 THEN stops[i].arrival_time - stops[i - 1].departure_time ELSE 0 ],
            Len(stops))

(* the sum over the stored daily logs of one total, in hundredths of an hour *)
LogsTotal(field) ==
    SumOver([ k \in 1..Len(dailyLogs) |-> dailyLogs[k].totals[field] ], Len(dailyLogs))

(* C13: once all daily logs of a plan are stored, the per-day totals of a  *)
(* duty status add up to the plan-wide total of that status computed from  *)
(* the stops and the drives between them, within 0.02 hour: driving,       *)
(* on duty not driving (pickup, dropoff, fuel) and sleeper (10-hour        *)
(* breaks).                                                                *)
C13_ProjectionRoundTrip ==
    (ValidTrip /\ pc = "return") =>
        /\ Abs(LogsTotal("total_driving_hours") - Round2(PlanDriveHours(svc.stops))) <= 2
        /\ Abs(LogsTotal("total_on_duty_hours")
               - Round2(PlanStopHours(svc.stops, { "pickup", "dropoff", "fuel" }))) <= 2
        /\ Abs(LogsTotal("total_sleeper_berth_hours")
               - Round2(PlanStopHours(svc.stops, { "10hr_break" }))) <= 2

IsPrefix(short, long) ==
    /\ Len(short) <= Len(long)
    /\ \A i \in 1..Len(short) : short[i] = long[i]

PassesWithFewerHoursUsed ==
    \A cycle1 \in 0..trip.cycle : Feasible(cycle1, base.duration_hours)

(* C15: when the gate has passed a route with cycleHoursUsed2, it passes   *)
(* the same route with every cycleHoursUsed1 <= cycleHoursUsed2.           *)
C15_FeasibilityMonotone ==
    pc = "base_route" => PassesWithFewerHoursUsed

(* the gate has passed a trip that had used part of its cycle *)
C15_Witness ==
    /\ pc = "base_route"
    /\ trip.cycle = 45
    /\ base.duration_hours > 0

(* the input of scenario E1 *)
E1Input ==
    /\ trip.exists
    /\ trip.current = trip.pickup
    /\ trip.cycle = 0
    /\ trip.start = Hours(6)
    /\ base.leg0_duration = 0
    /\ base.leg1_distance = Miles(55)

(* C16: scenario E1 gives the stops CURRENT, PICKUP 06:00-07:00 and        *)
(* DROPOFF 08:00-09:00, no fuel or break stop, and one daily log with      *)
(* driving 1.00, on duty not driving 2.00 and off duty 21.00 hours.        *)
C16_ScenarioE1 ==
    (E1Input /\ pc = "return") =>
        /\ [ i \in 1..Len(svc.stops) |-> svc.stops[i].stop_type ]
             = << "current", "pickup", "dropoff" >>
        /\ svc.stops[2].arrival_time = Hours(6)
        /\ svc.stops[2].departure_time = Hours(7)
        /\ svc.stops[3].arrival_time = Hours(8)
        /\ svc.stops[3].departure_time = Hours(9)
        /\ Len(dailyLogs) = 1
        /\ dailyLogs[1].totals.total_driving_hours = 100
        /\ dailyLogs[1].totals.total_on_duty_hours = 200
        /\ dailyLogs[1].totals.total_off_duty_hours = 2100

(* the input of scenario E6 *)
E6Input ==
    /\ trip.exists
    /\ trip.cycle = 0
    /\ base = LongHaul

CountStops(stops, type) ==
    Cardinality({ i \in 1..Len(stops) : stops[i].stop_type = type })

(* C17: scenario E6 (2500 miles, 45 hours, cycle 0, any start) needs at    *)
(* least 5 days, has at least two 10-hour breaks and two fuel stops, and   *)
(* its daily driving totals add up to the Route's total driving hours      *)
(* within 0.02.                                                            *)
C17_ScenarioE6 ==
    (E6Input /\ pc = "return") =>
        /\ Len(dailyLogs) >= 5
        /\ CountStops(svc.stops, "10hr_break") >= 2
        /\ CountStops(svc.stops, "fuel") >= 2
        /\ Abs(LogsTotal("total_driving_hours")
               - Round2(routes[1].total_driving_hours)) <= 2

LookupDone == call.op = "find_nearest_stop_location" /\ call.done

NoPoiFound ==
    \A k \in 1..Len(search_strategies(call.stop_type)) : call.searches[k] # "found"

TimelineInvariant(entries) ==
    \A i \in 1..Len(entries) :
        /\ entries[i].end_time > entries[i].start_time
        /\ i > 1 => entries[i].start_time = entries[i - 1].end_time

TimelineCallDone == call.op = "create_log_entries_for_day" /\ call.done

C20_Break30Frame ==
    [][ (pc = "traverse" /\ svc.distance_remaining > 0 /\ NeedsBreak30(svc)) =>
          /\ svc'.last = "30min_break"
          /\ svc'.current_time = svc.current_time + Minutes(BREAK_30MIN_DURATION)
          /\ svc'.hours_since_30min_break = 0
          /\ svc'.daily_driving_hours = svc.daily_driving_hours
          /\ svc'.daily_on_duty_hours = svc.daily_on_duty_hours
          /\ svc'.miles_since_fuel = svc.miles_since_fuel
          /\ svc'.cumulative_miles = svc.cumulative_miles ]_vars

(* C21: inserting the 10-hour break moves the clock 600 minutes on and     *)
(* sets the day's driving hours, the day's on-duty hours and the hours     *)
(* since the last break to 0; the miles since fuel and the cumulative      *)
(* miles stay as they were.                                                *)
C21_Break10Frame ==
    [][ (pc = "traverse" /\ svc.distance_remaining > 0
           /\ ~ NeedsBreak30(svc) /\ NeedsBreak10(svc)) =>
          /\ svc'.last = "10hr_break"
          /\ svc'.current_time = svc.current_time + Minutes(600)
          /\ svc'.stops[Len(svc'.stops)].departure_time
               - svc'.stops[Len(svc'.stops)].arrival_time = Hours(10)
          /\ svc'.daily_driving_hours = 0
          /\ svc'.daily_on_duty_hours = 0
          /\ svc'.hours_since_30min_break = 0
          /\ svc'.miles_since_fuel = svc.miles_since_fuel
          /\ svc'.cumulative_miles = svc.cumulative_miles ]_vars

(* a 10-hour break has just been inserted with miles on the fuel counter *)
C21_Witness ==
    /\ pc = "traverse"
    /\ svc.last = "10hr_break"
    /\ svc.daily_driving_hours = 0
    /\ svc.miles_since_fuel > 0
    /\ svc.miles_since_fuel < Miles(FUEL_STOP_INTERVAL_MILES)

(* the effect of an on-duty stop of `minutes` on the planner's counters,   *)
(* the miles since fuel apart                                              *)
OnDutyStopFrame(type, minutes) ==
    /\ svc'.last = type
    /\ svc'.stops[Len(svc'.stops)].stop_type = type
    /\ svc'.current_time = svc.current_time + Minutes(minutes)
    /\ svc'.daily_on_duty_hours = svc.daily_on_duty_hours + Minutes(minutes)
    /\ svc'.daily_driving_hours = svc.daily_driving_hours
    /\ svc'.hours_since_30min_break = svc.hours_since_30min_break
    /\ svc'.cumulative_miles = svc.cumulative_miles

(* C22: the pickup, dropoff and fuel stops move the clock and the day's    *)
(* on-duty hours on by their duration (60, 60 and 30 minutes) and change   *)
(* neither the day's driving hours, the hours since the last break nor the *)
(* cumulative miles; the fuel stop sets the miles since fuel to 0, the     *)
(* pickup and dropoff stops leave them as they were.                       *)
C22_OnDutyStopFrame ==
    [][ /\ pc = "pickup" =>
              /\ OnDutyStopFrame("pickup", 60)
              /\ svc'.miles_since_fuel = svc.miles_since_fuel
        /\ (pc = "traverse" /\ ~ (svc.distance_remaining > 0)) =>
              /\ OnDutyStopFrame("dropoff", 60)
              /\ svc'.miles_since_fuel = svc.miles_since_fuel
        /\ (pc = "traverse" /\ svc.distance_remaining > 0
              /\ ~ NeedsBreak30(svc) /\ ~ NeedsBreak10(svc) /\ NeedsFuel(svc)) =>
              /\ OnDutyStopFrame("fuel", 30)
              /\ svc'.miles_since_fuel = 0 ]_vars

(* a plan with a fuel stop has got its dropoff stop, with driving hours,   *)
(* hours since the last break and miles since fuel on the counters         *)
C22_Witness ==
    /\ pc = "create_route"
    /\ svc.last = "dropoff"
    /\ CountStops(svc.stops, "fuel") > 0
    /\ svc.daily_driving_hours > 0
    /\ svc.hours_since_30min_break > 0
    /\ svc.miles_since_fuel > 0

(* one stop of the given type was appended and nothing was driven *)
StopInsertedWithoutDriving(type) ==
    /\ Len(svc'.stops) = Len(svc.stops) + 1
    /\ svc'.stops[Len(svc'.stops)].stop_type = type
    /\ svc'.stops[Len(svc'.stops)].arrival_time = svc.current_time
    /\ svc'.cumulative_miles = svc.cumulative_miles
    /\ svc'.distance_remaining = svc.distance_remaining

(* C23: a loop iteration with a trigger set inserts exactly one stop and   *)
(* drives nothing, and the stop is chosen in the order 30-minute break     *)
(* (hours since break >= 8), then 10-hour break (driving >= 11 or on duty  *)
(* >= 14), then fuel (miles since fuel >= 1000); so a 30-minute break due  *)
(* together with a fuel stop comes first.                                  *)
C23_StopPriority ==
    [][ (pc = "traverse" /\ svc.distance_remaining > 0
           /\ (NeedsBreak30(svc) \/ NeedsBreak10(svc) \/ NeedsFuel(svc))) =>
          StopInsertedWithoutDriving(
              IF NeedsBreak30(svc) THEN "30min_break"
              ELSE IF NeedsBreak10(svc) THEN "10hr_break"
              ELSE "fuel") ]_vars

(* all three triggers were set at once, and the three stops were inserted  *)
(* at the same mile, break, rest, fuel                                     *)
C23_Witness ==
    /\ pc = "traverse"
    /\ svc.last = "fuel"
    /\ Len(svc.stops) = 5
    /\ svc.stops[3].stop_type = "30min_break"
    /\ svc.stops[4].stop_type = "10hr_break"
    /\ svc.stops[5].stop_type = "fuel"
    /\ svc.stops[3].cumulative_miles = svc.stops[5].cumulative_miles
    /\ svc.stops[2].cumulative_miles = svc.stops[5].cumulative_miles

InsertedStopTypes == { "fuel", "30min_break", "10hr_break" }

(* the shape of a complete stop list for a planned start and a base route *)
PlanShape(stops, start, base_route) ==
    LET n == Len(stops)
    IN /\ n >= 3
       /\ stops[1].stop_type = "current"
       /\ stops[1].arrival_time = start
       /\ stops[1].departure_time = start
       /\ stops[1].duration_minutes = 0
       /\ stops[2].stop_type = "pickup"
       /\ stops[2].duration_minutes = 60
       /\ stops[2].arrival_time = start + base_route.leg0_duration
       /\ stops[2].departure_time = stops[2].arrival_time + Hours(1)
       /\ stops[n].stop_type = "dropoff"
       /\ stops[n].duration_minutes = 60
       /\ stops[n].departure_time = stops[n].arrival_time + Hours(1)
       /\ CountStops(stops, "current") = 1
       /\ CountStops(stops, "pickup") = 1
       /\ CountStops(stops, "dropoff") = 1
       /\ \A i \in 1..n :
            stops[i].stop_type \in InsertedStopTypes => (2 < i /\ i < n)

(* C24: a complete stop list starts with the 'current' stop at the planned *)
(* start with zero duration, then the 60-minute pickup stop arriving the   *)
(* leg-0 duration after the start, and ends with the 60-minute dropoff     *)
(* stop; it has one stop of each of these three types, and every fuel or   *)
(* break stop lies strictly between pickup and dropoff; once no distance   *)
(* of the leg remains the next stop is the dropoff, whatever is due.       *)
C24_PlanShape ==
    /\ [] (pc \in PersistPcs => PlanShape(svc.stops, trip.start, base))
    /\ [][ (pc = "traverse" /\ ~ (svc.distance_remaining > 0)) =>
              /\ Len(svc'.stops) = Len(svc.stops) + 1
              /\ svc'.stops[Len(svc'.stops)].stop_type = "dropoff"
              /\ pc' = "create_route" ]_vars

(* the dropoff was reached after exactly 8 hours without a break: the      *)
(* 30-minute break due on arrival is not in the plan                       *)
C24_Witness ==
    /\ pc = "create_route"
    /\ svc.last = "dropoff"
    /\ NeedsBreak30(svc)
    /\ Len(svc.stops) > 3
    /\ svc.stops[Len(svc.stops)].cumulative_miles
         > svc.stops[Len(svc.stops) - 1].cumulative_miles

(* the drive the policy prescribes: the hours left on the tightest of the  *)
(* three hour budgets at 55 mph, capped by the miles left to the next      *)
(* fuel stop and by the distance left                                      *)
GreedyMiles(s) ==
    LET h_break == Hours(8) - s.hours_since_30min_break
        h_driving == Hours(11) - s.daily_driving_hours
        h_on_duty == Hours(14) - s.daily_on_duty_hours
        h == IF h_break <= h_driving /\ h_break <= h_on_duty THEN h_break
             ELSE IF h_driving <= h_on_duty THEN h_driving ELSE h_on_duty
        by_hours == (h * 55 * UnitsPerMile) \div UnitsPerHour
        by_fuel == Miles(1000) - s.miles_since_fuel
        m == IF by_hours <= by_fuel THEN by_hours ELSE by_fuel
    IN IF m <= s.distance_remaining THEN m ELSE s.distance_remaining

(* C25: in the loop a 30-minute break is inserted only with hours since    *)
(* break >= 8, a 10-hour break only with driving >= 11 or on duty >= 14,   *)
(* a fuel stop only with miles since fuel >= 1000; and when none of these  *)
(* holds and distance remains, the step is a drive of                      *)
(* min(min(8 - sinceBreak, 11 - dayDriving, 14 - dayOnDuty) * 55,          *)
(* 1000 - sinceFuel, remaining) miles and inserts no stop.                 *)
C25_GreedyPolicy ==
    [][ (pc = "traverse" /\ svc.distance_remaining > 0) =>
          /\ svc'.last = "30min_break" =>
                svc.hours_since_30min_break >= Hours(8)
          /\ svc'.last = "10hr_break" =>
                (svc.daily_driving_hours >= Hours(11) \/ svc.daily_on_duty_hours >= Hours(14))
          /\ svc'.last = "fuel" => svc.miles_since_fuel >= Miles(1000)
          /\ (svc.hours_since_30min_break < Hours(8)
                /\ svc.daily_driving_hours < Hours(11)
                /\ svc.daily_on_duty_hours < Hours(14)
                /\ svc.miles_since_fuel < Miles(1000)) =>
                /\ svc'.last = "drive"
                /\ svc'.stops = svc.stops
                /\ svc'.cumulative_miles - svc.cumulative_miles = GreedyMiles(svc)
                /\ svc.distance_remaining - svc'.distance_remaining = GreedyMiles(svc)
                /\ svc'.current_time - svc.current_time
                     = (GreedyMiles(svc) * UnitsPerHour) \div (55 * UnitsPerMile) ]_vars

(* a drive has ended at the 1000th mile since fuel with hours left on      *)
(* every hour budget: the fuel cap, not an hour budget, set its length     *)
C25_Witness ==
    /\ pc = "traverse"
    /\ svc.last = "drive"
    /\ svc.miles_since_fuel = Miles(1000)
    /\ svc.distance_remaining > 0
    /\ svc.hours_since_30min_break < Hours(8)
    /\ svc.daily_driving_hours < Hours(11)
    /\ svc.daily_on_duty_hours < Hours(14)

(* C26: along the stops of a plan the cumulative miles never decrease; a   *)
(* stored stop's miles_from_previous is its cumulative miles minus those   *)
(* of the stop before it, 0 for the first stop; and the last stop's        *)
(* cumulative miles are leg 0's distance plus leg 1's distance.            *)
C26_MilesAlongStops ==
    /\ \A i \in 2..Len(svc.stops) :
         svc.stops[i].cumulative_miles >= svc.stops[i - 1].cumulative_miles
    /\ \A i \in 1..Len(dbStops) :
         /\ pc \in PersistPcs =>
              dbStops[i].cumulative_miles = svc.stops[i].cumulative_miles
         /\ dbStops[i].miles_from_previous =
              (IF i = 1 THEN 0
               ELSE dbStops[i].cumulative_miles - dbStops[i - 1].cumulative_miles)
         /\ dbStops[i].miles_from_previous >= 0
    /\ pc \in PersistPcs =>
         svc.stops[Len(svc.stops)].cumulative_miles
           = base.leg0_distance + base.leg1_distance

(* the stops of a plan with miles on both legs and stops inserted at the   *)
(* same mile have all been stored                                          *)
C26_Witness ==
    /\ pc = "daily_logs"
    /\ base.leg0_distance > 0
    /\ base.leg1_distance > 0
    /\ Len(dbStops) = Len(svc.stops)
    /\ \E i \in 3..Len(dbStops) :
         /\ dbStops[i].miles_from_previous = 0
         /\ dbStops[i - 1].miles_from_previous > 0
         /\ dbStops[i].cumulative_miles < dbStops[Len(dbStops)].cumulative_miles

(* the dates from the first arrival to the last departure of a stop list *)
SpanDates(stops) ==
    DateOf(stops[1].arrival_time) .. DateOf(stops[Len(stops)].departure_time)

(* the plan occupies a positive amount of time of date d *)
OccupiesDate(stops, d) ==
    /\ stops[1].arrival_time < DayStart(d + 1)
    /\ stops[Len(stops)].departure_time > DayStart(d)

(* C27: the day projector keeps no slice of zero length: every stop slice  *)
(* and every drive slice of a date has a positive duration, so a stop that *)
(* departs exactly at midnight leaves no slice on the following date; and  *)
(* a daily log exists only for a date the plan occupies for a positive     *)
(* amount of time.                                                         *)
C27_NoZeroLengthSlices ==
    /\ pc \in PersistPcs =>
         \A d \in SpanDates(svc.stops) :
            /\ \A k \in 1..Len(stops_by_date(svc.stops, d)) :
                 stops_by_date(svc.stops, d)[k].day_departure
                   > stops_by_date(svc.stops, d)[k].day_arrival
            /\ \A k \in 1..Len(drives_by_date(svc.stops, d)) :
                 drives_by_date(svc.stops, d)[k].day_end
                   > drives_by_date(svc.stops, d)[k].day_start
    /\ pc \in { "daily_logs", "return" } =>
         \A k \in 1..Len(dailyLogs) : OccupiesDate(svc.stops, dailyLogs[k].log_date)

(* the sum of val(d) over the dates lo..hi *)
RECURSIVE SumDates(_, _, _)
SumDates(val(_), lo, hi) ==
    IF lo > hi THEN 0 ELSE val(lo) + SumDates(val, lo + 1, hi)

(* the time of stop number i (from 1) that its slice on date d covers *)
StopSliceHours(stops, i, d) ==
    LET slices == stops_by_date(stops, d)
    IN SumOver([ k \in 1..Len(slices) |->
                   IF slices[k].stop_index = i - 1
                   THEN slices[k].day_departure - slices[k].day_arrival ELSE 0 ],
               Len(slices))

(* the time of the drive into stop number i that its slice on date d covers *)
DriveSliceHours(stops, i, d) ==
    LET slices == drives_by_date(stops, d)
    IN SumOver([ k \in 1..Len(slices) |->
                   IF slices[k].to_stop.sequence = i - 1
                   THEN slices[k].day_end - slices[k].day_start ELSE 0 ],
               Len(slices))

(* every slice of date d lies in the window of d, and no interval has two  *)
(* slices on d                                                             *)
SlicesWithinDate(stops, d) ==
    LET ss == stops_by_date(stops, d)
        ds == drives_by_date(stops, d)
    IN /\ \A k \in 1..Len(ss) :
            /\ DayStart(d) <= ss[k].day_arrival
            /\ ss[k].day_arrival <= ss[k].day_departure
            /\ ss[k].day_departure <= DayStart(d + 1)
            /\ \A j \in 1..Len(ss) : ss[j].stop_index = ss[k].stop_index => j = k
       /\ \A k \in 1..Len(ds) :
            /\ DayStart(d) <= ds[k].day_start
            /\ ds[k].day_start < ds[k].day_end
            /\ ds[k].day_end <= DayStart(d + 1)
            /\ \A j \in 1..Len(ds) :
                 ds[j].to_stop.sequence = ds[k].to_stop.sequence => j = k

(* C28: the slices of a stop, and of a drive between consecutive stops,    *)
(* lie each inside its date's window from 00:00 to 24:00, at most one per  *)
(* date, one on every date on which the interval has time, and their       *)
(* durations add up exactly to the duration of the stop or drive: no time  *)
(* is lost at midnight.                                                    *)
C28_SlicesAddUp ==
    pc \in PersistPcs =>
        LET stops == svc.stops
            lo == DateOf(stops[1].arrival_time)
            hi == DateOf(stops[Len(stops)].departure_time)
        IN /\ \A d \in lo..hi : SlicesWithinDate(stops, d)
           /\ \A i \in 1..Len(stops) :
                LET stop_part(d) == StopSliceHours(stops, i, d)
                    drive_part(d) == DriveSliceHours(stops, i, d)
                IN /\ \A d \in lo..hi :
                        /\ Max2(stops[i].arrival_time, DayStart(d))
                             < Min2(stops[i].departure_time, DayStart(d + 1))
                             => stop_part(d) > 0
                        /\ (i > 1 /\ Max2(stops[i - 1].departure_time, DayStart(d))
                                       < Min2(stops[i].arrival_time, DayStart(d + 1)))
                             => drive_part(d) > 0
                   /\ SumDates(stop_part, lo, hi)
                        = stops[i].departure_time - stops[i].arrival_time
                   /\ i > 1 =>
                        SumDates(drive_part, lo, hi)
                          = stops[i].arrival_time - stops[i - 1].departure_time

(* C29: the daily logs of a route carry the day numbers 1, 2, ..., n in    *)
(* the order of their dates, no number twice; there is exactly one daily   *)
(* log for each local date the plan touches (each date from that of the    *)
(* first arrival to that of the last departure); and the trip's            *)
(* days_required is n.                                                     *)
C29_DayNumbering ==
    /\ \A k \in 1..Len(dailyLogs) : dailyLogs[k].day_number = k
    /\ \A j, k \in 1..Len(dailyLogs) :
         j < k => dailyLogs[j].log_date < dailyLogs[k].log_date
    /\ pc \in { "daily_logs", "return" } =>
         \A k \in 1..Len(dailyLogs) :
            dailyLogs[k].log_date = DateOf(svc.stops[1].arrival_time) + (k - 1)
    /\ pc = "return" =>
         { dailyLogs[k].log_date : k \in 1..Len(dailyLogs) } = SpanDates(svc.stops)
    /\ (pc = "idle" /\ response = 201 /\ HasRoute) =>
         /\ Len(dailyLogs) >= 1
         /\ trip.days_required = Len(dailyLogs)

(* a route generation has answered 201 for a plan of three or more dates *)
C29_Witness ==
    /\ pc = "idle"
    /\ response = 201
    /\ HasRoute
    /\ Len(dailyLogs) >= 3
    /\ trip.days_required = Len(dailyLogs)
    /\ dailyLogs[3].log_date > dailyLogs[1].log_date

(* the sum over the stored daily logs of total_miles, in tenths of a mile *)
LogsMiles ==
    SumOver([ k \in 1..Len(dailyLogs) |-> dailyLogs[k].total_miles ], Len(dailyLogs))

(* C30: once the daily logs of a plan are stored, their miles add up to    *)
(* the last stop's cumulative miles, within the rounding of each log to    *)
(* 0.1 mile; and a date's miles are the distance of its drive slices in    *)
(* proportion to their time: where every drive of the plan goes at 55 mph, *)
(* a date's miles are 55 times its driving hours, midnight splits          *)
(* included, within 0.1 mile.                                              *)
C30_MilesAddUp ==
    pc = "return" =>
        LET n == Len(dailyLogs)
            total == svc.stops[Len(svc.stops)].cumulative_miles
        IN /\ Abs(LogsMiles * UnitsPerMile - total * 10) <= n * UnitsPerMile
           /\ MilesAtSpeed(base.leg0_duration) = base.leg0_distance =>
                \A k \in 1..n :
                    Abs(dailyLogs[k].total_miles * UnitsPerMile
                        - MilesAtSpeed(driving_hours_of(
                              drives_by_date(svc.stops, dailyLogs[k].log_date)))
                          * 10) <= UnitsPerMile

(* the logs of a plan with a drive across midnight are stored, with miles  *)
(* on both dates of that drive                                             *)
C30_Witness ==
    /\ pc = "return"
    /\ \E i \in 2..Len(svc.stops) :
         LET d == DateOf(svc.stops[i - 1].departure_time)
         IN /\ DateOf(svc.stops[i].arrival_time) = d + 1
            /\ svc.stops[i].arrival_time > DayStart(d + 1)
            /\ \E j \in 1..(Len(dailyLogs) - 1) :
                 /\ dailyLogs[j].log_date = d
                 /\ dailyLogs[j].total_miles > 0
                 /\ dailyLogs[j + 1].total_miles > 0

(* the events of date d of a stop list, in the order the builder walks them *)
EventsOfDate(stops, d) ==
    LET day_stop_info == stops_by_date(stops, d)
        day_entries ==
            StableSort(day_stop_info,
                       [ i \in 1..Len(day_stop_info) |-> day_stop_info[i].day_arrival ])
    IN all_events(day_entries, drives_by_date(stops, d))

(* C31: in the sorted events of a day, a stop event comes before a drive   *)
(* event that starts at the same instant (the zero-duration 'current' stop *)
(* before the drive that leaves it).                                       *)
C31_StopBeforeDriveOnTie ==
    pc \in PersistPcs =>
        \A d \in SpanDates(svc.stops) :
            LET events == EventsOfDate(svc.stops, d)
            IN \A i, j \in 1..Len(events) :
                 (i < j /\ events[i].time = events[j].time)
                    => ~ (events[i].type = "drive" /\ events[j].type = "stop")

(* the vertex of the pickup -> dropoff part of the polyline at the         *)
(* fraction covered / total of that part, clamped to its last vertex       *)
Leg1Vertex(base_route, covered) ==
    LET g == geometry_of(base_route)
        leg1_points == g.total_points - g.pickup_index
        k == (covered * (leg1_points - 1)) \div base_route.leg1_distance
    IN g.pickup_index + (IF k > leg1_points - 1 THEN leg1_points - 1 ELSE k)

(* C32: the route point looked up for an inserted break or fuel stop is    *)
(* the vertex of the leg 1 (pickup -> dropoff) geometry at the fraction    *)
(* distance covered in the leg / leg 1 miles, the index clamped to the     *)
(* valid range; it is never a vertex of the current -> pickup part.        *)
C32_LookupPointOnLeg1 ==
    (pc = "traverse" /\ svc.last \in InsertedStopTypes) =>
        /\ svc.lookup_point >= geometry_of(base).pickup_index
        /\ svc.lookup_point <= geometry_of(base).total_points - 1
        /\ svc.lookup_point = Leg1Vertex(base, svc.distance_covered_in_leg)

(* C33: in the pickup -> dropoff traversal, right after every drive step   *)
(* the hours since the last break are at most 8, the day's driving hours   *)
(* at most 11, the day's on-duty hours at most 14 and the miles since fuel *)
(* at most 1000, whatever leg 0 left on the counters when the traversal    *)
(* started.                                                                *)
C33_CountersWithinLimitsAfterDrive ==
    (pc = "traverse" /\ svc.last = "drive") =>
        /\ svc.hours_since_30min_break <= Hours(8)
        /\ svc.daily_driving_hours <= Hours(11)
        /\ svc.daily_on_duty_hours <= Hours(14)
        /\ svc.miles_since_fuel <= Miles(1000)
        /\ svc.hours_since_30min_break > 0
        /\ svc.miles_since_fuel > 0

(* a drive step has ended at the 11th driving hour of the day in a         *)
(* traversal that started with every counter over its limit                *)
C33_Witness ==
    /\ pc = "traverse"
    /\ svc.last = "drive"
    /\ base.leg0_duration > Hours(MAX_ON_DUTY_HOURS_PER_DAY)
    /\ base.leg0_distance > Miles(FUEL_STOP_INTERVAL_MILES)
    /\ svc.daily_driving_hours = Hours(MAX_DRIVING_HOURS_PER_DAY)

(* C34: in a plan's stop list a 30-minute break is never directly followed *)
(* by a 10-hour break with no driving between the two.                     *)
C34_NoBreak30BeforeBreak10 ==
    \A i \in 2..Len(svc.stops) :
        ~ (/\ svc.stops[i - 1].stop_type = "30min_break"
           /\ svc.stops[i].stop_type = "10hr_break"
           /\ svc.stops[i].cumulative_miles = svc.stops[i - 1].cumulative_miles)

(* the on-duty hours of a plan: every drive between consecutive stops plus *)
(* the pickup, dropoff and fuel stops                                      *)
PlanOnDutyHours(stops) ==
    PlanDriveHours(stops) + PlanStopHours(stops, { "pickup", "dropoff", "fuel" })

(* C35: whenever a Route row with compliance_status 'compliant' is stored, *)
(* the trip's cycle hours used plus the plan's on-duty hours (all driving  *)
(* plus pickup, dropoff and fuel time) are at most 70.                     *)
C35_CompliantWithinCycle ==
    (pc \in { "create_stops", "daily_logs", "return" } /\ HasRoute) =>
        \A i \in 1..Len(routes) :
            routes[i].compliance_status = "compliant" =>
                Hours(trip.cycle) + PlanOnDutyHours(svc.stops) <= Hours(MAX_HOURS_PER_CYCLE)

(* C36: the stored Route's total_driving_hours is the sum of the drive     *)
(* intervals between consecutive stops (arrival minus the previous         *)
(* departure), and its total_on_duty_hours is that driving time plus the   *)
(* durations of the pickup, dropoff and fuel stops, each counted once.     *)
C36_RouteTotalsFromPlan ==
    (pc \in { "create_stops", "daily_logs", "return" } /\ HasRoute) =>
        /\ routes[1].total_driving_hours = PlanDriveHours(svc.stops)
        /\ routes[1].total_on_duty_hours = PlanOnDutyHours(svc.stops)

IsEstimate == call.op = "generate_stops"

(* C37: in RouteService._generate_stops the clock never moves backwards:   *)
(* every drive step has a non-negative duration, and each stop of the list *)
(* arrives no earlier than the stop before it departs, also after a fuel   *)
(* stop has pushed the on-duty hours past 14                               *)
C37_EstimateClockMonotone ==
    IsEstimate =>
        /\ call.hours_to_drive >= 0
        /\ \A i \in 2..Len(call.stops) :
               call.stops[i].arrival_time >= call.stops[i - 1].departure_time

(* hours driven on the way to stop i, read off the returned list *)
EstimateDriveBefore(stops, i) ==
    IF i = 1 THEN 0 ELSE stops[i].arrival_time - stops[i - 1].departure_time

(* hours driven up to stop i since the last stop before i of one of the    *)
(* given types (the pickup starts the count)                               *)
EstimateDrivenSince(stops, i, types) ==
    LET F[j \in 1..i] ==
            IF j = 1 THEN 0
            ELSE EstimateDriveBefore(stops, j)
                 + (IF stops[j - 1].stop_type \in types THEN 0 ELSE F[j - 1])
    IN  F[i]

(* C38: in the stops RouteService._generate_stops returns, no stretch of   *)
(* driving without a 30min_break or 10hr_break in it is longer than 8      *)
(* hours, and the driving between two consecutive 10hr_break stops (or     *)
(* between the pickup and the first one) is never more than 11 hours       *)
C38_EstimateDrivingLimits ==
    (IsEstimate /\ call.at = "returned") =>
        \A i \in 1..Len(call.stops) :
            /\ EstimateDrivenSince(call.stops, i, { "30min_break", "10hr_break" })
                   <= Hours(REQUIRED_30MIN_BREAK_AFTER_HOURS)
            /\ EstimateDrivenSince(call.stops, i, { "10hr_break" })
                   <= Hours(MAX_DRIVING_HOURS_PER_DAY)

ActiveOf(driver) ==
    { i \in 1..Len(call.table) :
        call.table[i].driver = driver /\ call.table[i].active }

AtMostOneActivePerDriver ==
    IsActivities => \A driver \in Drivers : Cardinality(ActiveOf(driver)) <= 1

(* a step in which some end_activity call saves its row and returns *)
EndActivityReturns(r) ==
    /\ IsActivities
    /\ call.ending[r].at = "assigned"
    /\ call'.ending[r].at = "idle"

EndActivitySetsInactive ==
    \A r \in EndCalls :
        EndActivityReturns(r) =>
            LET row == call'.table[call.ending[r].activity.id]
            IN  /\ ~ row.active
                /\ row.end_time >= row.start_time

(* C39: whatever the interleaving of start_activity and end_activity calls,*)
(* a driver has at most one active activity at a time, and a returning     *)
(* end_activity leaves its activity inactive with end_time >= start_time   *)
C39_OneActiveActivityPerDriver ==
    [] AtMostOneActivePerDriver /\ [][EndActivitySetsInactive]_vars

=============================================================================
